---- MODULE Spec2Model ----
(***************************************************************************)
(* A model of the MusicGen batch worker (src/src/worker.py): the job loop  *)
(* of MusicGenWorker.run, the per-job pipeline of process_job (existence   *)
(* check, chunked generation, temp file, upload, result) and the exit      *)
(* code.  Text is modelled as sequences of one-character strings.  The     *)
(* storage service, the generative model and the file system are the       *)
(* environment: every call to them may succeed or fail in each way the     *)
(* code distinguishes.                                                     *)
(***************************************************************************)
EXTENDS Integers, Sequences, FiniteSets, TLC

(***************************************************************************)
(* Bounds of the model.                                                    *)
(***************************************************************************)
\* longest job list read from prompts.txt
MaxJobs == 2
\* runs of the worker process against the same bucket and job file
MaxRuns == 2
\* longest requested duration of the single job of the chunking specification
MaxDuration == 95
\* most lines of prompts.txt in the parsing specification
MaxLines == 3
\* most results in the list of the report specification
MaxResults == 3

(***************************************************************************)
(* Program constants.                                                      *)
(***************************************************************************)
\* generate_audio: max_length_seconds
max_length_seconds == 30
\* __init__: pricing.get('g4dn.xlarge'), in thousandths of a dollar per hour
hourly_cost_usd == 526
\* the digest keeps hexdigest()[:8]
HashLen == 8

(***************************************************************************)
(* Text helpers.                                                           *)
(***************************************************************************)
MaxOf(S) == CHOOSE m \in S : \A x \in S : x <= m

\* str.rfind, 1-based, 0 when absent
RFind(s, ch) ==
  LET I == {i \in 1..Len(s) : s[i] = ch}
  IN  IF I = {} THEN 0 ELSE MaxOf(I)

\* os.path.splitext(p)[0]: the extension starts at the last dot after the
\* last separator, unless only dots precede it in the file name
SplitExtStem(p) ==
  LET sepIndex == RFind(p, "/")
      dotIndex == RFind(p, ".")
  IN  IF dotIndex > sepIndex
         /\ \E i \in (sepIndex + 1)..(dotIndex - 1) : p[i] # "."
      THEN SubSeq(p, 1, dotIndex - 1)
      ELSE p

Digits == <<"0", "1", "2", "3", "4", "5", "6", "7", "8", "9">>
HexDigits == Digits \o <<"a", "b", "c", "d", "e", "f">>

\* f"{duration}": the decimal text of a non-negative integer
RECURSIVE Decimal(_)
Decimal(n) ==
  IF n < 10 THEN <<Digits[n + 1]>>
  ELSE Decimal(n \div 10) \o <<Digits[(n % 10) + 1]>>

\* the characters of the model's texts, in code order
Alphabet ==
  Digits \o <<"a", "b", "c", "w", "v", "x", "y", "A", "V", "W", ".", "|", "_", "/",
             "\"">>

Ord(ch) == CHOOSE i \in 1..Len(Alphabet) : Alphabet[i] = ch

\* hashlib.md5(content.encode()).hexdigest()[:8].  The digest is the
\* library's; the model keeps what the worker relies on: a fixed function
\* of every character of the content whose result is 8 hexadecimal digits.
\* The state is 8 digits, each mixed with its neighbour and the character.
MixStep(h, c) ==
  [k \in 1..HashLen |-> (h[k] * 5 + h[(k % HashLen) + 1] * 3 + c * k + k) % 16]

RECURSIVE Mix(_, _, _)
Mix(content, i, h) ==
  IF i > Len(content) THEN h
  ELSE Mix(content, i + 1, SubSeq(MixStep(h, Ord(content[i])), 1, HashLen))

Md5Prefix(content) ==
  LET h == Mix(content, 1, [k \in 1..HashLen |-> k])
  IN  [k \in 1..HashLen |-> HexDigits[h[k] + 1]]

WavExt == <<".", "w", "a", "v">>

\* the characters str.strip() removes
Whitespace == {" ", "\t", "\r", "\n"}

\* str.strip()
Strip(s) ==
  LET kept == {i \in 1..Len(s) : s[i] \notin Whitespace}
  IN  IF kept = {} THEN <<>>
      ELSE SubSeq(s, CHOOSE i \in kept : \A k \in kept : i <= k, MaxOf(kept))

\* str.startswith and str.endswith
StartsWith(s, prefix) ==
  Len(s) >= Len(prefix) /\ SubSeq(s, 1, Len(prefix)) = prefix

EndsWith(s, suffix) ==
  Len(s) >= Len(suffix) /\ SubSeq(s, Len(s) - Len(suffix) + 1, Len(s)) = suffix

\* str.split(sep) for a one-character separator: one part more than there
\* are separators, empty parts kept
RECURSIVE Split(_, _)
Split(s, sep) ==
  LET at == {i \in 1..Len(s) : s[i] = sep}
  IN  IF at = {} THEN <<s>>
      ELSE LET first == CHOOSE i \in at : \A k \in at : i <= k
           IN  <<SubSeq(s, 1, first - 1)>> \o Split(SubSeq(s, first + 1, Len(s)), sep)

UpperLetters ==
  <<"A", "B", "C", "D", "E", "F", "G", "H", "I", "J", "K", "L", "M",
    "N", "O", "P", "Q", "R", "S", "T", "U", "V", "W", "X", "Y", "Z">>
LowerLetters ==
  <<"a", "b", "c", "d", "e", "f", "g", "h", "i", "j", "k", "l", "m",
    "n", "o", "p", "q", "r", "s", "t", "u", "v", "w", "x", "y", "z">>

\* str.lower()
Lower(s) ==
  [i \in 1..Len(s) |->
     IF \E k \in 1..Len(UpperLetters) : UpperLetters[k] = s[i]
     THEN LowerLetters[CHOOSE k \in 1..Len(UpperLetters) : UpperLetters[k] = s[i]]
     ELSE s[i]]

DigitSet == {Digits[k] : k \in 1..Len(Digits)}

\* the texts int() accepts (already stripped): an optional sign, then
\* decimal digits, which single underscores may separate
IsIntText(s) ==
  LET body == IF s # <<>> /\ s[1] \in {"+", "-"} THEN Tail(s) ELSE s
  IN  /\ body # <<>>
      /\ \A i \in 1..Len(body) : body[i] \in DigitSet \cup {"_"}
      /\ body[1] # "_" /\ body[Len(body)] # "_"
      /\ \A i \in 1..(Len(body) - 1) : ~(body[i] = "_" /\ body[i + 1] = "_")

RECURSIVE DigitsValue(_, _)
DigitsValue(body, acc) ==
  IF body = <<>> THEN acc
  ELSE IF body[1] = "_" THEN DigitsValue(Tail(body), acc)
  ELSE DigitsValue(Tail(body),
                   acc * 10 + (CHOOSE k \in 0..9 : Digits[k + 1] = body[1]))

\* int(s) for a text int() accepts
IntOf(s) ==
  IF s[1] = "-" THEN 0 - DigitsValue(Tail(s), 0)
  ELSE IF s[1] = "+" THEN DigitsValue(Tail(s), 0)
  ELSE DigitsValue(s, 0)

(***************************************************************************)
(* parse_prompts_file                                                      *)
(***************************************************************************)
\* a check of the extension that is sensitive to letter case
EnsureWavExtensionByCase(filename) ==
  IF ~EndsWith(filename, WavExt) THEN filename \o WavExt ELSE filename

\* if not filename.lower().endswith('.wav'): filename += '.wav'
EnsureWavExtension(filename) ==
  IF ~EndsWith(Lower(filename), WavExt) THEN filename \o WavExt ELSE filename

\* a duration check that lets zero and negative durations through
DurationIsIntegerText(duration_str) == IsIntText(duration_str)

\* duration = int(duration_str) does not raise ValueError and duration > 0
DurationAccepted(duration_str) ==
  IsIntText(duration_str) /\ IntOf(duration_str) > 0

\* the stripped fields of a line: [part.strip() for part in line.split(';')]
PartsOf(line) ==
  LET raw == Split(line, ";")
  IN  [i \in 1..Len(raw) |-> Strip(raw[i])]

\* the body of the loop over the lines for one line: the jobs, none or
\* one, the line adds
ParseLine(text) ==
  LET line == Strip(text)
      parts == PartsOf(line)
  IN  IF line = <<>> \/ StartsWith(line, <<"#">>) THEN <<>>
      ELSE IF Len(parts) # 3 THEN <<>>
      ELSE IF ~DurationAccepted(parts[2]) THEN <<>>
      ELSE << <<parts[1], IntOf(parts[2]), EnsureWavExtension(parts[3])>> >>

\* a list that takes a job only if it does not hold it yet
AppendJobsOnce(job_list, added) ==
  IF \E i \in 1..Len(job_list) : added = <<job_list[i]>>
  THEN job_list
  ELSE job_list \o added

\* jobs.append((prompt_text, duration, filename))
AppendJobs(job_list, added) == job_list \o added

RECURSIVE ParseLines(_, _, _)
ParseLines(lines, i, job_list) ==
  IF i > Len(lines) THEN job_list
  ELSE ParseLines(lines, i + 1, AppendJobs(job_list, ParseLine(lines[i])))

\* parse_prompts_file: no job when the file does not exist or reading it
\* raises, otherwise the jobs of its lines
parse_prompts_file(readable, lines) ==
  IF ~readable THEN <<>> ELSE ParseLines(lines, 1, <<>>)

(***************************************************************************)
(* The job file and the environment's answers.                             *)
(***************************************************************************)
PromptX == <<"x">>
PromptY == <<"y">>
FileA == <<"a", ".", "w", "a", "v">>
FileB == <<"b", ".", "W", "A", "V">>

\* the jobs a line of prompts.txt may hold: (prompt, duration, filename)
JobSet ==
  { <<PromptX, 10, FileA>>, <<PromptY, 45, FileB>> }

\* the line of prompts.txt that holds a job:
\* PROMPT_TEXT ; DURATION_IN_SECONDS ; FILE_NAME
LineOf(job) == job[1] \o <<";">> \o Decimal(job[2]) \o <<";">> \o job[3]

RECURSIVE SeqsUpTo(_, _)
SeqsUpTo(S, n) ==
  IF n = 0 THEN {<<>>}
  ELSE LET shorter == SeqsUpTo(S, n - 1)
       IN  shorter \cup {Append(q, x) : q \in {r \in shorter : Len(r) = n - 1}, x \in S}

\* str(e) of the exceptions the environment raises; an exception raised
\* without arguments has the empty text
ErrorTexts == {"", "CUDA out of memory"}

\* error_message of a JobResult built without one (Python's None)
NoneValue == "<None>"

\* the wall-clock time, in clock ticks, one call to the environment takes:
\* a generation call or a write one tick, an upload, which depends on the
\* network, one or two
Ticks == {1}
UploadTicks == {1, 2}

\* the content of an object that is not in the bucket
NoReport == <<"<absent>">>

VARIABLES
  environ,            \* os.environ: the AWS variables of the process
  promptsFile,        \* the lines of prompts.txt, in file order
  promptsReadable,    \* prompts.txt exists and reading it does not raise
  storage,            \* the keys of the objects in the bucket
  tempFiles,          \* the temporary audio files on the worker's disk
  runNo,              \* which run of the worker process this is
  pc,                 \* where the run is
  exit_code,          \* the process exit code, once pc = "exited"
  jobs,               \* run: the parsed jobs
  jobIdx,             \* run: the loop index i (0 before the first job)
  job_results,        \* self.job_results
  report_success,     \* run: what upload_cost_report returned
  csv_content,        \* upload_cost_report: the text of the cost report
  s3_filename,        \* process_job: the destination key
  elapsed,            \* process_job: time.time() - start_time
  remaining_duration, \* generate_audio: seconds still to generate
  chunks,             \* generate_audio: the chunk durations generated
  temp_filepath,      \* process_job: the temp file, <<>> before it exists
  head,               \* history: how the job's head request ended
  parsed,             \* history: parse_prompts_file has returned in this run
  outcome,            \* history: how each job of this run ended
  uploads,            \* history: <<run, job index, key, job>> of audio uploads
  latest_report       \* the text of the object cost_report_latest.csv

\* deploy_and_monitor.py, the script that deploys to the pod and starts the
\* worker there
VARIABLES
  env_file_exists,      \* the file .env is in the working directory
  dotenv,               \* the variables that have a value after load_dotenv
  deploy_script_exists, \* deploy_to_pod.py is next to the script
  prompts_exists,       \* prompts.txt is in the working directory
  script_pc,            \* where main is
  script_exit,          \* the exit code of the script, once it has exited
  worker_pid,           \* main: what start_worker returned
  remote_started,       \* history: the start command ran on the pod
  steps                 \* history: <<step, how it ended>> of the steps run

deployVars ==
  <<env_file_exists, dotenv, deploy_script_exists, prompts_exists, script_pc,
    script_exit, worker_pid, remote_started, steps>>

workerVars ==
  <<environ, promptsFile, promptsReadable, storage, tempFiles, runNo, pc, exit_code,
    jobs, jobIdx, job_results, report_success, csv_content, s3_filename, elapsed, remaining_duration,
    chunks, temp_filepath, head, parsed, outcome, uploads, latest_report>>

vars == <<workerVars, deployVars>>

envVars == <<environ, promptsFile, promptsReadable, runNo>>
runVars == <<environ, promptsFile, promptsReadable, runNo, parsed, csv_content>>
jobVars ==
  <<s3_filename, elapsed, remaining_duration, chunks, temp_filepath, head>>

(***************************************************************************)
(* process_job and what it calls.                                          *)
(***************************************************************************)
\* a key that is not a function of the job alone: the hashed content also
\* holds a stamp of the run
KeyStampedByRun(prompt, duration, base_filename) ==
  SplitExtStem(base_filename) \o <<"_">>
    \o Md5Prefix(prompt \o <<"|">> \o Decimal(duration) \o <<"|">>
                   \o base_filename \o Decimal(runNo))
    \o WavExt

\* a key built from the whole file name: the extension is not split off
KeyKeepingExtension(prompt, duration, base_filename) ==
  base_filename \o <<"_">>
    \o Md5Prefix(prompt \o <<"|">> \o Decimal(duration) \o <<"|">> \o base_filename)
    \o WavExt

\* a key that reads the worker's state: the hashed content also holds the
\* number of results recorded so far
KeySaltedByResults(prompt, duration, base_filename) ==
  SplitExtStem(base_filename) \o <<"_">>
    \o Md5Prefix(prompt \o <<"|">> \o Decimal(duration) \o <<"|">>
                   \o base_filename \o Decimal(Len(job_results)))
    \o WavExt

\* a key whose digest is taken of the file name alone
KeyOfNameOnly(prompt, duration, base_filename) ==
  SplitExtStem(base_filename) \o <<"_">> \o Md5Prefix(base_filename) \o WavExt

generate_deterministic_filename(prompt, duration, base_filename) ==
  LET content == prompt \o <<"|">> \o Decimal(duration) \o <<"|">> \o base_filename
      hash_suffix == Md5Prefix(content)
      name_part == SplitExtStem(base_filename)
  IN  name_part \o <<"_">> \o hash_suffix \o WavExt

\* a cost at a rate that rises with every job of the run
EstimatedCostRisingRate(generation_time) ==
  generation_time * (hourly_cost_usd + jobIdx)

\* (generation_time / 3600) * self.hourly_cost_usd, with ticks for seconds,
\* in units of 1/3,600,000 dollar
EstimatedCost(generation_time) == generation_time * hourly_cost_usd

JobResult(key, job, generation_time, cost, success, error_message) ==
  [ s3_filename          |-> key,
    prompt               |-> job[1],
    requested_duration_s |-> job[2],
    generation_time_s    |-> generation_time,
    estimated_cost_usd   |-> cost,
    success              |-> success,
    error_message        |-> error_message ]

\* a skipped job recorded as a failure
SkippedResultAsFailure(key, job) == JobResult(key, job, 0, 0, FALSE, NoneValue)

\* the JobResult of a job found in storage
SkippedResult(key, job) == JobResult(key, job, 0, 0, TRUE, NoneValue)

\* a result that reports the upload's failure in other words
UploadedResultOtherText(key, job, generation_time, upload_success) ==
  JobResult(key, job, generation_time, EstimatedCost(generation_time),
            upload_success, IF upload_success THEN NoneValue ELSE "upload failed")

\* the JobResult of a job whose upload was attempted
UploadedResult(key, job, generation_time, upload_success) ==
  IF upload_success
  THEN JobResult(key, job, generation_time, EstimatedCost(generation_time),
                 TRUE, NoneValue)
  ELSE JobResult(key, job, generation_time, EstimatedCost(generation_time),
                 FALSE, "S3 upload failed")

\* an except clause that builds the result without an error message
FailedResultNoMessage(key, job, generation_time, text) ==
  JobResult(key, job, generation_time, EstimatedCost(generation_time),
            FALSE, NoneValue)

\* an except clause that records no time and no cost
FailedResultNoTime(key, job, generation_time, text) ==
  JobResult(key, job, 0, 0, FALSE, text)

\* the JobResult built by process_job's except clause
FailedResult(key, job, generation_time, text) ==
  JobResult(key, job, generation_time, EstimatedCost(generation_time),
            FALSE, text)

\* how head_object may end for a key: it succeeds only for an object of
\* the bucket, answers 404 only for a missing one, and may fail with any
\* other ClientError or with an exception that is no ClientError
HeadOutcomes(key) ==
  (IF key \in storage THEN {"found"} ELSE {"404"}) \cup {"client_error", "exception"}

\* an existence check that never finds the object
CheckNeverFinds(answer) == FALSE

\* an existence check that always finds the object
CheckAlwaysFinds(answer) == TRUE

\* an existence check that answers False for the code 404 only
CheckFalseOn404Only(answer) == answer # "404"

\* check_s3_file_exists, for a head request that raised nothing but a
\* ClientError
check_s3_file_exists(answer) == answer = "found"

Min(a, b) == IF a <= b THEN a ELSE b

\* a chunked branch that always asks for a whole ceiling
ChunkAlwaysCeiling(duration_seconds, remaining) ==
  IF duration_seconds <= max_length_seconds
  THEN duration_seconds
  ELSE max_length_seconds

\* the duration of the next generation call: the whole duration in the
\* single-call branch, min(remaining, ceiling) in the chunked one
ChunkDuration(duration_seconds, remaining) ==
  IF duration_seconds <= max_length_seconds
  THEN duration_seconds
  ELSE Min(remaining, max_length_seconds)

\* a generate_audio that returns after its first generation call
GenerationDoneAtOnce(duration_seconds, remaining) == TRUE

\* whether generate_audio returns after a call that left `remaining`
GenerationDone(duration_seconds, remaining) ==
  duration_seconds <= max_length_seconds \/ ~(remaining > 0)

CurrentJob == jobs[jobIdx]

\* the name tempfile.NamedTemporaryFile gives: unique among the files
TempName == <<runNo, jobIdx>>

\* what the job did, for the history: how it ended, its key, whether the
\* key was in storage and whether the head request found it, the chunks
\* generated, the temp file created and the time spent
Trace(how, answer, time) ==
  [ how     |-> how,
    key     |-> s3_filename,
    present |-> s3_filename \in storage,
    found   |-> answer = "found",
    chunks  |-> chunks,
    temp    |-> temp_filepath,
    elapsed |-> time ]

\* process_job is left: its local variables are gone and run's loop goes on
LeaveJob ==
  /\ s3_filename' = <<>>
  /\ elapsed' = 0
  /\ remaining_duration' = 0
  /\ chunks' = <<>>
  /\ temp_filepath' = <<>>
  /\ head' = "none"
  /\ pc' = "next_job"

\* a run that puts the newest result in front of the earlier ones
ReturnResultInFront(result, trace) ==
  /\ job_results' = <<result>> \o job_results
  /\ outcome' = Append(outcome, trace)
  /\ LeaveJob

\* process_job returns `result`: run appends it
ReturnResult(result, trace) ==
  /\ job_results' = Append(job_results, result)
  /\ outcome' = Append(outcome, trace)
  /\ LeaveJob

\* process_job's except clause
CatchInJob(generation_time, text, how) ==
  ReturnResult(FailedResult(s3_filename, CurrentJob, generation_time, text),
               Trace(how, head, generation_time))

\* an exception leaves process_job: run's except clause logs it and
\* continues with the next job, appending nothing
CatchInRun(trace) ==
  /\ outcome' = Append(outcome, trace)
  /\ UNCHANGED job_results
  /\ LeaveJob

(***************************************************************************)
(* __init__: the AWS environment                                           *)
(***************************************************************************)
\* os.getenv of a variable that is not set (Python's None)
Unset == <<"<unset>">>

\* a value that counts as true: set and not empty
IsSet(value) == value # Unset /\ value # <<>>

\* value.strip().strip('\r\n').strip()
Cleaned(value) == Strip(value)

required_vars ==
  <<"AWS_ACCESS_KEY_ID", "AWS_SECRET_ACCESS_KEY", "MUSICGEN_S3_BUCKET",
    "AWS_DEFAULT_REGION">>

\* the loop of _validate_aws_environment writes the cleaned value of every
\* required variable that is set back to os.environ
CleanedEnviron(env) ==
  [var \in DOMAIN env |->
     IF (\E k \in 1..Len(required_vars) : required_vars[k] = var) /\ IsSet(env[var])
     THEN Cleaned(env[var])
     ELSE env[var]]

\* missing_vars: the required variables without a value after cleaning; a
\* missing AWS_DEFAULT_REGION is passed over when AWS_REGION has a value
missing_vars(env) ==
  {var \in {required_vars[k] : k \in 1..Len(required_vars)} :
     /\ ~IsSet(CleanedEnviron(env)[var])
     /\ ~(var = "AWS_DEFAULT_REGION" /\ IsSet(env["AWS_REGION"]))}

\* a validation that accepts every bucket name
AnyBucketName(bucket_name) == TRUE

BucketNameChars ==
  {LowerLetters[k] : k \in 1..Len(LowerLetters)} \cup DigitSet \cup {".", "-"}

_is_valid_s3_bucket_name(bucket_name) ==
  /\ IsSet(bucket_name)
  /\ ~(Len(bucket_name) < 3 \/ Len(bucket_name) > 63)
  /\ ~(bucket_name[1] = "-" \/ bucket_name[Len(bucket_name)] = "-")
  /\ ~\E i \in 1..(Len(bucket_name) - 1) :
        bucket_name[i] = "." /\ bucket_name[i + 1] = "."
  /\ \A i \in 1..Len(bucket_name) : bucket_name[i] \in BucketNameChars

\* _validate_aws_environment raises ValueError
EnvironmentRejected(env) ==
  \/ missing_vars(env) # {}
  \/ ~_is_valid_s3_bucket_name(CleanedEnviron(env)["MUSICGEN_S3_BUCKET"])

\* the environment of a worker that was constructed
ConstructedEnviron ==
  [ AWS_ACCESS_KEY_ID     |-> <<"k">>,
    AWS_SECRET_ACCESS_KEY |-> <<"s">>,
    MUSICGEN_S3_BUCKET    |-> <<"a", "b", "c">>,
    AWS_DEFAULT_REGION    |-> <<"r">>,
    AWS_REGION            |-> Unset ]

\* the environments the process may be started in
Environs ==
  [ AWS_ACCESS_KEY_ID     : {Unset, <<" ">>, <<"k">>},
    AWS_SECRET_ACCESS_KEY : {Unset, <<"s">>},
    MUSICGEN_S3_BUCKET    : {Unset, <<>>, <<"a", "b">>, <<"-", "a", "b">>,
                             <<"a", ".", ".", "b">>, <<"A", "b", "c">>,
                             <<"a", "b", "c">>, <<" ", "a", "b", "c", "\n">>},
    AWS_DEFAULT_REGION    : {Unset, <<"r">>},
    AWS_REGION            : {Unset, <<"r">>} ]

\* the object _validate_s3_access writes to test the bucket
test_key == <<"musicgen_write_test.txt">>

(***************************************************************************)
(* The state after the worker is constructed.                              *)
(***************************************************************************)
\* the worker is run by hand: deploy_and_monitor.py is not run
ScriptNotRun ==
  /\ env_file_exists = FALSE
  /\ dotenv = {}
  /\ deploy_script_exists = FALSE
  /\ prompts_exists = FALSE
  /\ script_pc = "not_run"
  /\ script_exit = 0
  /\ worker_pid = NoneValue
  /\ remote_started = FALSE
  /\ steps = <<>>

Fresh ==
  /\ environ = ConstructedEnviron
  /\ pc = "initialize_model"
  /\ exit_code = 0
  /\ jobs = <<>>
  /\ jobIdx = 0
  /\ job_results = <<>>
  /\ report_success = FALSE
  /\ csv_content = <<>>
  /\ s3_filename = <<>>
  /\ elapsed = 0
  /\ remaining_duration = 0
  /\ chunks = <<>>
  /\ temp_filepath = <<>>
  /\ head = "none"
  /\ parsed = FALSE
  /\ outcome = <<>>

\* the keys the bucket may hold before the run: those of earlier runs
JobKeys ==
  {generate_deterministic_filename(j[1], j[2], j[3]) : j \in JobSet}

\* one run of the worker against a bucket that holds any of the job keys
Init ==
  /\ promptsFile \in SeqsUpTo({LineOf(j) : j \in JobSet}, MaxJobs)
  /\ promptsReadable \in BOOLEAN
  /\ storage \in SUBSET JobKeys
  /\ tempFiles = {}
  /\ runNo = 1
  /\ uploads = {}
  /\ latest_report = NoReport
  /\ ScriptNotRun
  /\ Fresh

\* the line of the job file that is run again
RepeatedJob == <<PromptY, 45, FileB>>

\* the first of several runs, against a bucket that starts empty, of a job
\* file that holds one line, once or twice
InitRerun ==
  /\ promptsFile \in {<<LineOf(RepeatedJob)>>,
                      <<LineOf(RepeatedJob), LineOf(RepeatedJob)>>}
  /\ promptsReadable = TRUE
  /\ storage = {}
  /\ tempFiles = {}
  /\ runNo = 1
  /\ uploads = {}
  /\ latest_report = NoReport
  /\ ScriptNotRun
  /\ Fresh

\* the lines of the job files of the key specification: jobs that differ
\* in the prompt, in the duration, in the letter case of the extension, in
\* the directory and the dots of the file name, and a line whose file-name
\* field is empty
KeyLines ==
  { <<"x", ";", "1", "0", ";", "a", ".", "w", "a", "v">>,
    <<"y", ";", "1", "0", ";", "a", ".", "w", "a", "v">>,
    <<"0", ";", "1", "0", ";", "a", ".", "w", "a", "v">>,
    <<"x", ";", "1", "1", ";", "a", ".", "w", "a", "v">>,
    <<"x", ";", "1", "0", ";", "a", ".", "W", "A", "V">>,
    <<"x", ";", "1", "0", ";", "a", "/", "b", ".", "c", ".", "w", "a", "v">>,
    <<"x", ";", "1", "0", ";">> }

\* one run, against an empty bucket, of a job file of two of these lines
InitKey ==
  /\ promptsFile \in {<<l1, l2>> : l1 \in KeyLines, l2 \in KeyLines}
  /\ promptsReadable = TRUE
  /\ storage = {}
  /\ tempFiles = {}
  /\ runNo = 1
  /\ uploads = {}
  /\ latest_report = NoReport
  /\ ScriptNotRun
  /\ Fresh

\* the kinds of line of the parsing specification: valid lines with the
\* extension, with blanks and the extension in capitals, without the
\* extension, with a signed duration and with an empty file-name field; a
\* blank line, a comment after blanks; lines of two and of four fields;
\* durations that are no number, zero and negative
ParseLineKinds ==
  { <<"x", ";", "1", "0", ";", "a", ".", "w", "a", "v">>,
    <<" ", "y", " ", ";", " ", "4", "5", " ", ";", " ", "b", ".", "W", "A", "V", " ">>,
    <<"x", ";", "5", ";", "c">>,
    <<"x", ";", "+", "7", ";", "c", ".", "W", "a", "v">>,
    <<"x", ";", "1", "0", ";">>,
    <<>>,
    <<" ", "#", "x", ";", "1", "0", ";", "a", ".", "w", "a", "v">>,
    <<"x", ";", "1", "0">>,
    <<"x", ";", "1", "0", ";", "a", ";", "b">>,
    <<"x", ";", "a", "b", ";", "a", ".", "w", "a", "v">>,
    <<"x", ";", "0", ";", "a", ".", "w", "a", "v">>,
    <<"x", ";", "-", "5", ";", "a", ".", "w", "a", "v">> }

\* the worker is constructed and prompts.txt holds up to MaxLines lines
\* of these kinds
InitParse ==
  /\ promptsFile \in SeqsUpTo(ParseLineKinds, MaxLines)
  /\ promptsReadable \in BOOLEAN
  /\ storage = {}
  /\ tempFiles = {}
  /\ runNo = 1
  /\ uploads = {}
  /\ latest_report = NoReport
  /\ ScriptNotRun
  /\ Fresh

\* the lines of the job files with malformed lines: a valid line, a line
\* of two fields and a line with the duration 0
MalformedFileLines ==
  { LineOf(<<PromptX, 10, FileA>>),
    <<"x", ";", "1", "0">>,
    <<"x", ";", "0", ";", "a", ".", "w", "a", "v">> }

\* one run, against an empty bucket, of a job file of such lines
InitMalformed ==
  /\ promptsFile \in SeqsUpTo(MalformedFileLines, MaxJobs)
  /\ promptsReadable = TRUE
  /\ storage = {}
  /\ tempFiles = {}
  /\ runNo = 1
  /\ uploads = {}
  /\ latest_report = NoReport
  /\ ScriptNotRun
  /\ Fresh

\* the process starts, in any of the environments, with a job file of one
\* line and an empty bucket
InitConfig ==
  /\ environ \in Environs
  /\ promptsFile = <<LineOf(<<PromptX, 10, FileA>>)>>
  /\ promptsReadable = TRUE
  /\ storage = {}
  /\ tempFiles = {}
  /\ runNo = 1
  /\ uploads = {}
  /\ latest_report = NoReport
  /\ ScriptNotRun
  /\ pc = "validate_aws_environment"
  /\ exit_code = 0
  /\ jobs = <<>>
  /\ jobIdx = 0
  /\ job_results = <<>>
  /\ report_success = FALSE
  /\ csv_content = <<>>
  /\ s3_filename = <<>>
  /\ elapsed = 0
  /\ remaining_duration = 0
  /\ chunks = <<>>
  /\ temp_filepath = <<>>
  /\ head = "none"
  /\ parsed = FALSE
  /\ outcome = <<>>

\* a prompt that holds a double quote
PromptQuoted == <<"y", "\"">>

\* the jobs and results of the report specification: successes costing
\* 1.5 and 2.5 dollars, the second with a quote in its prompt, a skipped
\* job, an upload of one tick, and failures with and without a large cost
ReportCases ==
  LET jobX == <<PromptX, 10, FileA>>
      jobQ == <<PromptQuoted, 45, FileB>>
      keyX == generate_deterministic_filename(PromptX, 10, FileA)
      keyQ == generate_deterministic_filename(PromptQuoted, 45, FileB)
  IN  { [job |-> jobX, result |-> JobResult(keyX, jobX, 3, 5400000, TRUE, NoneValue)],
        [job |-> jobQ, result |-> JobResult(keyQ, jobQ, 5, 9000000, TRUE, NoneValue)],
        [job |-> jobX, result |-> SkippedResult(keyX, jobX)],
        [job |-> jobX, result |-> UploadedResult(keyX, jobX, 1, TRUE)],
        [job |-> jobX, result |-> FailedResult(keyX, jobX, 2, "CUDA out of memory")],
        [job |-> jobQ, result |-> JobResult(keyQ, jobQ, 4, 9000000, FALSE,
                                            "S3 upload failed")] }

\* run is about to call upload_cost_report and job_results holds any list
\* of up to MaxResults of these results; how the jobs ran is not recorded
InitReport ==
  /\ \E cases \in SeqsUpTo(ReportCases, MaxResults) :
       /\ jobs = [k \in 1..Len(cases) |-> cases[k].job]
       /\ job_results = [k \in 1..Len(cases) |-> cases[k].result]
       /\ promptsFile = [k \in 1..Len(cases) |-> LineOf(cases[k].job)]
       /\ jobIdx = Len(cases)
       /\ storage = {cases[k].result.s3_filename :
                       k \in {i \in 1..Len(cases) : cases[i].result.success}}
  /\ environ = ConstructedEnviron
  /\ promptsReadable = TRUE
  /\ tempFiles = {}
  /\ runNo = 1
  /\ uploads = {}
  /\ latest_report = NoReport
  /\ ScriptNotRun
  /\ pc = "upload_cost_report"
  /\ exit_code = 0
  /\ report_success = FALSE
  /\ csv_content = <<>>
  /\ s3_filename = <<>>
  /\ elapsed = 0
  /\ remaining_duration = 0
  /\ chunks = <<>>
  /\ temp_filepath = <<>>
  /\ head = "none"
  /\ parsed = TRUE
  /\ outcome = <<>>

\* one run with one job of any duration, for the chunking of
\* generate_audio; the bucket is empty or holds the job's key
InitGen ==
  /\ \E d \in 1..MaxDuration :
       /\ promptsFile = <<LineOf(<<PromptX, d, FileA>>)>>
       /\ storage \in {{}, {generate_deterministic_filename(PromptX, d, FileA)}}
  /\ promptsReadable = TRUE
  /\ tempFiles = {}
  /\ runNo = 1
  /\ uploads = {}
  /\ latest_report = NoReport
  /\ ScriptNotRun
  /\ Fresh

(***************************************************************************)
(* run                                                                     *)
(***************************************************************************)
\* sys.exit(code)
Exit(code) ==
  /\ pc' = "exited"
  /\ exit_code' = code

\* main: worker = MusicGenWorker().  __init__ begins with
\* self._validate_aws_environment(); its ValueError is caught nowhere and
\* ends the process with code 1
ValidateAwsEnvironment ==
  /\ pc = "validate_aws_environment"
  /\ environ' = CleanedEnviron(environ)
  /\ IF EnvironmentRejected(environ)
     THEN Exit(1)
     ELSE pc' = "validate_s3_access" /\ UNCHANGED exit_code
  /\ UNCHANGED <<promptsFile, promptsReadable, runNo, parsed, csv_content,
                 jobVars, storage, tempFiles, jobs, jobIdx, job_results,
                 report_success, outcome, uploads, latest_report, deployVars>>

\* the rest of __init__: self._validate_s3_access() lists the buckets,
\* heads the bucket, puts the test object and deletes it; a failure of any
\* of the four calls raises ValueError, which ends the process
ValidateS3Access ==
  /\ pc = "validate_s3_access"
  /\ \E answer \in {"list_failed", "head_failed", "put_failed", "delete_failed",
                     "passed"} :
       /\ storage' = IF answer = "delete_failed"
                     THEN storage \cup {test_key}
                     ELSE storage
       /\ IF answer = "passed"
          THEN pc' = "initialize_model" /\ UNCHANGED exit_code
          ELSE Exit(1)
  /\ UNCHANGED <<runVars, jobVars, tempFiles, jobs, jobIdx, job_results,
                 report_success, outcome, uploads, latest_report, deployVars>>

\* self.initialize_model(): an exception reaches run's except clause
InitializeModel ==
  /\ pc = "initialize_model"
  /\ \E ok \in BOOLEAN :
       IF ok
       THEN pc' = "parse_prompts_file" /\ UNCHANGED exit_code
       ELSE Exit(1)
  /\ UNCHANGED <<runVars, jobVars, storage, tempFiles, jobs, jobIdx,
                 job_results, report_success, outcome, uploads, latest_report, deployVars>>

\* jobs = self.parse_prompts_file(); if not jobs: sys.exit(1)
ParsePromptsFile ==
  /\ pc = "parse_prompts_file"
  /\ jobs' = parse_prompts_file(promptsReadable, promptsFile)
  /\ parsed' = TRUE
  /\ IF jobs' = <<>>
     THEN Exit(1)
     ELSE pc' = "next_job" /\ UNCHANGED exit_code
  /\ UNCHANGED <<envVars, jobVars, storage, tempFiles, jobIdx, job_results,
                 report_success, csv_content, outcome, uploads, latest_report, deployVars>>

\* a loop that also stops at the first failed result
LoopDoneAtFailure(i, job_list, results) ==
  ~(i < Len(job_list)) \/ \E k \in 1..Len(results) : ~results[k].success

\* whether the for loop over the jobs is over after i jobs
LoopDone(i, job_list, results) == ~(i < Len(job_list))

\* the head of the for loop, and process_job up to the existence check
NextJob ==
  /\ pc = "next_job"
  /\ IF ~LoopDone(jobIdx, jobs, job_results)
     THEN /\ jobIdx' = jobIdx + 1
          /\ s3_filename' = generate_deterministic_filename(
                              jobs[jobIdx'][1], jobs[jobIdx'][2], jobs[jobIdx'][3])
          /\ pc' = "check_s3_file_exists"
     ELSE /\ pc' = "upload_cost_report"
          /\ UNCHANGED <<jobIdx, s3_filename>>
  /\ UNCHANGED <<runVars, storage, tempFiles, exit_code, jobs, job_results,
                 report_success, elapsed, remaining_duration, chunks,
                 temp_filepath, head, outcome, uploads, latest_report, deployVars>>

\* if self.check_s3_file_exists(s3_filename): return the skipped result;
\* otherwise start_time = time.time() and generate_audio begins.  An
\* exception of head_object that is no ClientError leaves process_job.
CheckExists ==
  /\ pc = "check_s3_file_exists"
  /\ \E answer \in HeadOutcomes(s3_filename) :
       IF answer = "exception"
       THEN CatchInRun(Trace("crashed", answer, 0))
       ELSE IF check_s3_file_exists(answer)
       THEN ReturnResult(SkippedResult(s3_filename, CurrentJob),
                         Trace("skipped", answer, 0))
       ELSE /\ head' = answer
            /\ remaining_duration' = CurrentJob[2]
            /\ pc' = "generate_audio"
            /\ UNCHANGED <<job_results, outcome, s3_filename, elapsed, chunks,
                           temp_filepath>>
  /\ UNCHANGED <<runVars, storage, tempFiles, exit_code, jobs, jobIdx,
                 report_success, uploads, latest_report, deployVars>>

\* one self.model.generate call of generate_audio
GenerateChunk ==
  /\ pc = "generate_audio"
  /\ \E t \in Ticks, ok \in BOOLEAN :
       LET chunk_duration == ChunkDuration(CurrentJob[2], remaining_duration)
       IN  IF ok
           THEN /\ elapsed' = elapsed + t
                /\ chunks' = Append(chunks, chunk_duration)
                /\ remaining_duration' = remaining_duration - chunk_duration
                /\ pc' = IF GenerationDone(CurrentJob[2], remaining_duration')
                         THEN "create_temp_file"
                         ELSE "generate_audio"
                /\ UNCHANGED <<job_results, outcome, s3_filename, temp_filepath,
                               head>>
           ELSE \E text \in ErrorTexts :
                  CatchInJob(elapsed + t, text, "generation_raised")
  /\ UNCHANGED <<runVars, storage, tempFiles, exit_code, jobs, jobIdx,
                 report_success, uploads, latest_report, deployVars>>

\* with tempfile.NamedTemporaryFile(suffix='.wav', delete=False)
CreateTempFile ==
  /\ pc = "create_temp_file"
  /\ \E ok \in BOOLEAN :
       IF ok
       THEN /\ temp_filepath' = TempName
            /\ tempFiles' = tempFiles \cup {TempName}
            /\ pc' = "write_audio"
            /\ UNCHANGED <<job_results, outcome, s3_filename, elapsed,
                           remaining_duration, chunks, head>>
       ELSE /\ \E text \in ErrorTexts :
                 CatchInJob(elapsed, text, "temp_file_raised")
            /\ UNCHANGED tempFiles
  /\ UNCHANGED <<runVars, storage, exit_code, jobs, jobIdx, report_success,
                 uploads, latest_report, deployVars>>

\* sf.write(temp_filepath, audio_data, sample_rate)
WriteAudio ==
  /\ pc = "write_audio"
  /\ \E t \in Ticks, ok \in BOOLEAN :
       IF ok
       THEN /\ elapsed' = elapsed + t
            /\ pc' = "upload_to_s3"
            /\ UNCHANGED <<job_results, outcome, s3_filename,
                           remaining_duration, chunks, temp_filepath, head>>
       ELSE \E text \in ErrorTexts :
              CatchInJob(elapsed + t, text, "write_raised")
  /\ UNCHANGED <<runVars, storage, tempFiles, exit_code, jobs, jobIdx,
                 report_success, uploads, latest_report, deployVars>>

\* upload_success = self.upload_to_s3(...), the timing, os.unlink and the
\* result.  upload_to_s3 catches every exception and answers False.
UploadAudio ==
  /\ pc = "upload_to_s3"
  /\ \E t \in UploadTicks, upload_success \in BOOLEAN :
       /\ storage' = IF upload_success THEN storage \cup {s3_filename} ELSE storage
       /\ uploads' = IF upload_success
                     THEN uploads \cup {<<runNo, jobIdx, s3_filename, CurrentJob>>}
                     ELSE uploads
       /\ tempFiles' = tempFiles \ {temp_filepath}
       /\ ReturnResult(
            UploadedResult(s3_filename, CurrentJob, elapsed + t, upload_success),
            Trace(IF upload_success THEN "done" ELSE "upload_failed",
                  head, elapsed + t))
  /\ UNCHANGED <<runVars, exit_code, jobs, jobIdx, report_success,
                 latest_report, deployVars>>

(***************************************************************************)
(* generate_cost_report.  A text is a sequence of pieces: the literal      *)
(* parts of the f-strings are one piece each, values are formatted         *)
(* character by character, and the newline is a piece of its own.          *)
(***************************************************************************)
\* units of cost, 1/3,600,000 dollar, in one ten-thousandth of a dollar
CostUnitsPerTenThousandth == 360

\* n / d rounded to the nearest integer, a tie to the even one
RoundDiv(n, d) ==
  LET q == n \div d
      r == n % d
  IN  IF 2 * r > d \/ (2 * r = d /\ q % 2 = 1) THEN q + 1 ELSE q

RECURSIVE PowerOfTen(_)
PowerOfTen(n) == IF n = 0 THEN 1 ELSE 10 * PowerOfTen(n - 1)

\* the decimal text of n in at least `width` digits
RECURSIVE ZeroPadded(_, _)
ZeroPadded(n, width) ==
  IF width <= 1 THEN Decimal(n)
  ELSE ZeroPadded(n \div 10, width - 1) \o <<Digits[(n % 10) + 1]>>

\* the fixed-point text of scaled / 10^decimals
FixedPoint(scaled, decimals) ==
  Decimal(scaled \div PowerOfTen(decimals)) \o <<".">>
    \o ZeroPadded(scaled % PowerOfTen(decimals), decimals)

\* f"{generation_time_s:.2f}" of a time in ticks
FormatTime(generation_time) == FixedPoint(generation_time * 100, 2)

\* f"{estimated_cost_usd:.4f}" of a cost in units of 1/3,600,000 dollar
FormatCost(cost) == FixedPoint(RoundDiv(cost, CostUnitsPerTenThousandth), 4)

\* result.prompt.replace('"', '""')
RECURSIVE EscapeQuotes(_)
EscapeQuotes(text) ==
  IF text = <<>> THEN <<>>
  ELSE (IF text[1] = "\"" THEN <<"\"", "\"">> ELSE <<text[1]>>)
         \o EscapeQuotes(Tail(text))

RECURSIVE SumOf(_)
SumOf(values) == IF values = <<>> THEN 0 ELSE values[1] + SumOf(Tail(values))

\* "\n".join(output)
RECURSIVE JoinLines(_)
JoinLines(output) ==
  IF output = <<>> THEN <<>>
  ELSE IF Len(output) = 1 THEN output[1]
  ELSE output[1] \o <<"\n">> \o JoinLines(Tail(output))

ReportHeader ==
  <<"s3_filename,prompt,requested_duration_s,generation_time_s,estimated_cost_usd">>

\* a report that lists every result
AllResults(results) == results

IsSuccess(r) == r.success

\* successful_results = [r for r in self.job_results if r.success]
successful_results(results) == SelectSeq(results, IsSuccess)

\* the data row of a result
ReportRow(result) ==
  <<"\"">> \o result.s3_filename \o <<"\"", ",">>
    \o <<"\"">> \o EscapeQuotes(result.prompt) \o <<"\"", ",">>
    \o Decimal(result.requested_duration_s) \o <<",">>
    \o FormatTime(result.generation_time_s) \o <<",">>
    \o FormatCost(result.estimated_cost_usd)

\* a summary row whose cost is that of the last result: total_cost is
\* assigned, not added to
TotalRowOfLastCost(successful) ==
  <<"TOTAL,">> \o Decimal(Len(successful)) \o <<" files,,">>
    \o FormatTime(SumOf([k \in 1..Len(successful) |-> successful[k].generation_time_s]))
    \o <<",">>
    \o FormatCost(successful[Len(successful)].estimated_cost_usd)

\* the summary row
TotalRow(successful) ==
  <<"TOTAL,">> \o Decimal(Len(successful)) \o <<" files,,">>
    \o FormatTime(SumOf([k \in 1..Len(successful) |-> successful[k].generation_time_s]))
    \o <<",">>
    \o FormatCost(SumOf([k \in 1..Len(successful) |-> successful[k].estimated_cost_usd]))

\* the lines of a report with rows: header, rows, empty line, summary
ReportLines(successful) ==
  <<ReportHeader>> \o [k \in 1..Len(successful) |-> ReportRow(successful[k])]
    \o << <<>>, TotalRow(successful) >>

\* a report without the early return for no successful result
ReportWithoutEarlyReturn(results) ==
  JoinLines(ReportLines(successful_results(results)))

generate_cost_report(results) ==
  IF successful_results(results) = <<>>
  THEN ReportHeader \o <<"\n">>
  ELSE JoinLines(ReportLines(successful_results(results)))

ReportKey == <<"cost_report_">> \o Decimal(runNo) \o <<".csv">>
ReportLatestKey == <<"cost_report_latest.csv">>

\* the ways upload_cost_report ends: an exception before the first upload
\* (the temporary file), the first upload answering False, an exception
\* after the first upload succeeded (os.unlink, the second temporary
\* file), the second upload answering False, which is not looked at, an
\* exception after the second upload succeeded (os.unlink), or no failure
ReportOutcomes ==
  {"raised", "first_failed", "raised_after_first", "latest_failed",
   "raised_after_latest", "uploaded"}

\* the outcomes that put the report under the timestamped key, under the
\* "latest" key, and those upload_cost_report answers True for
StoresReport ==
  {"raised_after_first", "latest_failed", "raised_after_latest", "uploaded"}
StoresLatest == {"raised_after_latest", "uploaded"}
AnswersTrue == {"latest_failed", "uploaded"}

\* report_success = self.upload_cost_report(): the report goes to storage
\* under a timestamped key and, if that upload succeeded, under the
\* "latest" key; any exception is caught and answered False
UploadCostReport ==
  /\ pc = "upload_cost_report"
  /\ csv_content' = generate_cost_report(job_results)
  /\ \E answer \in ReportOutcomes :
       /\ report_success' = (answer \in AnswersTrue)
       /\ storage' = storage
                       \cup (IF answer \in StoresReport THEN {ReportKey} ELSE {})
                       \cup (IF answer \in StoresLatest THEN {ReportLatestKey} ELSE {})
       /\ latest_report' = IF answer \in StoresLatest
                           THEN csv_content'
                           ELSE latest_report
  /\ pc' = "exit"
  /\ UNCHANGED <<envVars, parsed, jobVars, tempFiles, exit_code, jobs, jobIdx,
                 job_results, outcome, uploads, deployVars>>

\* a count that takes a job without a JobResult for a success
SuccessfulJobsOrCrashed(results) ==
  Cardinality({i \in 1..Len(results) : results[i].success})
    + (Len(outcome) - Len(results))

\* successful_jobs = len([r for r in self.job_results if r.success])
SuccessfulJobs(results) ==
  Cardinality({i \in 1..Len(results) : results[i].success})

\* an exit code that counts only the failed results
ExitCodeOfResults(job_list, results) ==
  IF Len(results) - SuccessfulJobs(results) > 0 THEN 1 ELSE 0

\* an exit code that counts the lines of the file that gave no successful
\* result, the malformed ones included
ExitCodeCountingLines(job_list, results) ==
  IF Len(promptsFile) - SuccessfulJobs(results) > 0 THEN 1 ELSE 0

\* an exit code that also counts a cost report that was not uploaded
ExitCodeWithReport(job_list, results) ==
  IF Len(job_list) - SuccessfulJobs(results) > 0 \/ ~report_success
  THEN 1 ELSE 0

\* failed_jobs = len(jobs) - successful_jobs; sys.exit(1) if it is
\* positive, otherwise run returns and the process ends with code 0
ExitCodeOf(job_list, results) ==
  IF Len(job_list) - SuccessfulJobs(results) > 0 THEN 1 ELSE 0

ExitRun ==
  /\ pc = "exit"
  /\ Exit(ExitCodeOf(jobs, job_results))
  /\ UNCHANGED <<runVars, jobVars, storage, tempFiles, jobs, jobIdx,
                 job_results, report_success, outcome, uploads, latest_report, deployVars>>

\* the operator starts the worker again: a new process, the same job file,
\* bucket and disk
Rerun ==
  /\ pc = "exited"
  /\ runNo < MaxRuns
  /\ runNo' = runNo + 1
  /\ pc' = "initialize_model"
  /\ exit_code' = 0
  /\ jobs' = <<>>
  /\ jobIdx' = 0
  /\ job_results' = <<>>
  /\ report_success' = FALSE
  /\ csv_content' = <<>>
  /\ s3_filename' = <<>>
  /\ elapsed' = 0
  /\ remaining_duration' = 0
  /\ chunks' = <<>>
  /\ temp_filepath' = <<>>
  /\ head' = "none"
  /\ parsed' = FALSE
  /\ outcome' = <<>>
  /\ UNCHANGED <<environ, promptsFile, promptsReadable, storage, tempFiles,
                 uploads, latest_report, deployVars>>

\* the steps of one run
NextInRun ==
  \/ InitializeModel
  \/ ParsePromptsFile
  \/ NextJob
  \/ CheckExists
  \/ GenerateChunk
  \/ CreateTempFile
  \/ WriteAudio
  \/ UploadAudio
  \/ UploadCostReport
  \/ ExitRun

Next ==
  \/ NextInRun
  \/ Rerun

\* one run
Spec == Init /\ [][NextInRun]_vars

\* one run with a single job of any duration
SpecGen == InitGen /\ [][NextInRun]_vars

\* several runs, one after the other, of the same job file
SpecRerun == InitRerun /\ [][Next]_vars

\* one run of two jobs that are equal or differ in one argument
SpecKey == InitKey /\ [][NextInRun]_vars

\* one run of a job file that may hold malformed lines
SpecMalformed == InitMalformed /\ [][NextInRun]_vars

\* the steps of the process from its start
NextFromStart ==
  \/ ValidateAwsEnvironment
  \/ ValidateS3Access
  \/ NextInRun

\* the process from its start, in any environment
SpecConfig == InitConfig /\ [][NextFromStart]_vars

\* the end of run: the cost report and the exit
NextReport ==
  \/ UploadCostReport
  \/ ExitRun

SpecReport == InitReport /\ [][NextReport]_vars

\* the start of run, up to the parsed job list
NextParse ==
  \/ InitializeModel
  \/ ParsePromptsFile

SpecParse == InitParse /\ [][NextParse]_vars

(***************************************************************************)
(* deploy_and_monitor.py: deploy to the pod, start the worker there,       *)
(* stream its log, show the summary.  A subprocess the script waits for    *)
(* ends in one of a few ways, and Ctrl+C may arrive while it waits.        *)
(***************************************************************************)
\* load_environment: the variables that must have a value
RequiredVars == {"RUNPOD_HOST", "RUNPOD_USER"}

\* the texts the file worker.pid on the pod may hold
Pids == {"4242", "4243"}

\* the order of the steps in main
StepOrder == <<"deploy", "start_worker", "monitor", "summary">>

\* how the subprocess of run_deployment may end
DeployAnswers == {"returncode_0", "returncode_nonzero", "timeout", "raised", "interrupted"}

\* how the two ssh calls of start_worker may end
StartAnswers ==
  {"start_failed", "start_raised", "pid_raised", "pid_failed", "pid_empty", "pid",
   "interrupted"}

\* the answers of start_worker after which the pod has run the start command
StartCommandRan == {"pid_raised", "pid_failed", "pid_empty", "pid"}

\* how the streaming of monitor_worker may end
MonitorAnswers == {"streamed", "ssh_failed", "raised", "interrupted"}

\* how the ssh calls of show_completion_summary may end
SummaryAnswers == {"shown", "raised", "interrupted"}

\* run_deployment: True only when deploy_to_pod.py returned 0
run_deployment(answer) == answer = "returncode_0"

\* start_worker: the text of worker.pid, "unknown" when the query for it
\* failed, None when the start command failed or anything raised
start_worker(answer, pid) ==
  CASE answer = "pid" -> pid
    [] answer = "pid_empty" -> ""
    [] answer = "pid_failed" -> "unknown"
    [] OTHER -> NoneValue

NoPidNoneOnly(pid) == pid = NoneValue

\* main: `not worker_pid`, true of None and of the empty text
NoPid(pid) == pid = NoneValue \/ pid = ""

\* load_environment: exit 1 unless .env exists and gives the required variables
LoadEnvironment ==
  /\ script_pc = "load_environment"
  /\ IF ~env_file_exists \/ ~(RequiredVars \subseteq dotenv)
       THEN script_pc' = "exited" /\ script_exit' = 1
       ELSE script_pc' = "run_deployment" /\ UNCHANGED script_exit
  /\ UNCHANGED <<workerVars, env_file_exists, dotenv, deploy_script_exists,
                 prompts_exists, worker_pid, remote_started, steps>>

\* main, step 1: run_deployment, exit 1 when it answers False
RunDeployment ==
  /\ script_pc = "run_deployment"
  /\ \E answer \in (IF deploy_script_exists THEN DeployAnswers ELSE {"missing"}) :
       /\ steps' = Append(steps, <<"deploy", answer>>)
       /\ IF answer = "interrupted"
            THEN script_pc' = "exited" /\ script_exit' = 0
            ELSE IF run_deployment(answer)
                   THEN script_pc' = "start_worker" /\ UNCHANGED script_exit
                   ELSE script_pc' = "exited" /\ script_exit' = 1
  /\ UNCHANGED <<workerVars, env_file_exists, dotenv, deploy_script_exists,
                 prompts_exists, worker_pid, remote_started>>

\* main, step 2: start_worker, exit 1 when it returns no PID
StartWorker ==
  /\ script_pc = "start_worker"
  /\ \E answer \in (IF prompts_exists THEN StartAnswers ELSE {"prompts_missing"}),
        pid \in Pids :
       /\ steps' = Append(steps, <<"start_worker", answer>>)
       /\ \/ answer \in StartCommandRan /\ remote_started' = TRUE
          \/ answer = "prompts_missing" /\ remote_started' = FALSE
          \/ /\ answer \in {"start_failed", "start_raised", "interrupted"}
             /\ remote_started' \in BOOLEAN
       /\ IF answer = "interrupted"
            THEN /\ script_pc' = "exited" /\ script_exit' = 0
                 /\ UNCHANGED worker_pid
            ELSE /\ worker_pid' = start_worker(answer, pid)
                 /\ IF NoPid(worker_pid')
                      THEN script_pc' = "exited" /\ script_exit' = 1
                      ELSE script_pc' = "monitor_worker" /\ UNCHANGED script_exit
  /\ UNCHANGED <<workerVars, env_file_exists, dotenv, deploy_script_exists,
                 prompts_exists>>

\* main, step 3: monitor_worker prints what went wrong and returns
MonitorWorker ==
  /\ script_pc = "monitor_worker"
  /\ \E answer \in MonitorAnswers :
       /\ steps' = Append(steps, <<"monitor", answer>>)
       /\ IF answer = "interrupted"
            THEN script_pc' = "exited"
            ELSE script_pc' = "show_completion_summary"
  /\ UNCHANGED <<workerVars, env_file_exists, dotenv, deploy_script_exists,
                 prompts_exists, script_exit, worker_pid, remote_started>>

\* main, step 4: show_completion_summary, then main returns
ShowCompletionSummary ==
  /\ script_pc = "show_completion_summary"
  /\ \E answer \in SummaryAnswers :
       steps' = Append(steps, <<"summary", answer>>)
  /\ script_pc' = "exited"
  /\ UNCHANGED <<workerVars, env_file_exists, dotenv, deploy_script_exists,
                 prompts_exists, script_exit, worker_pid, remote_started>>

\* the script is started in any working directory; the worker is not run by hand
InitDeploy ==
  /\ env_file_exists \in BOOLEAN
  /\ dotenv \in SUBSET RequiredVars
  /\ deploy_script_exists \in BOOLEAN
  /\ prompts_exists \in BOOLEAN
  /\ script_pc = "load_environment"
  /\ script_exit = 0
  /\ worker_pid = NoneValue
  /\ remote_started = FALSE
  /\ steps = <<>>
  /\ promptsFile = <<>>
  /\ promptsReadable = FALSE
  /\ storage = {}
  /\ tempFiles = {}
  /\ runNo = 1
  /\ uploads = {}
  /\ latest_report = NoReport
  /\ environ = ConstructedEnviron
  /\ pc = "not_started"
  /\ exit_code = 0
  /\ jobs = <<>>
  /\ jobIdx = 0
  /\ job_results = <<>>
  /\ report_success = FALSE
  /\ csv_content = <<>>
  /\ s3_filename = <<>>
  /\ elapsed = 0
  /\ remaining_duration = 0
  /\ chunks = <<>>
  /\ temp_filepath = <<>>
  /\ head = "none"
  /\ parsed = FALSE
  /\ outcome = <<>>

\* the steps of main
NextDeploy ==
  \/ LoadEnvironment
  \/ RunDeployment
  \/ StartWorker
  \/ MonitorWorker
  \/ ShowCompletionSummary

\* one run of deploy_and_monitor.py
SpecDeploy == InitDeploy /\ [][NextDeploy]_vars

(***************************************************************************)
(* Vocabulary of the properties.                                           *)
(***************************************************************************)
\* process_job is past its existence check and has not returned
PastCheck ==
  pc \in {"generate_audio", "create_temp_file", "write_audio", "upload_to_s3"}

\* the jobs of this run that have ended
Ended == 1..Len(outcome)

\* the jobs whose process_job returned a JobResult
Returned == {i \in Ended : outcome[i].how # "crashed"}

\* the place in job_results of returned job i's result
ResultIndex(i) == Cardinality({k \in Returned : k <= i})

ResultOf(i) == job_results[ResultIndex(i)]

\* job i generated nothing, wrote no temp file and uploaded nothing
DidNothing(i) ==
  /\ outcome[i].chunks = <<>>
  /\ outcome[i].temp = <<>>
  /\ \A u \in uploads : ~(u[1] = runNo /\ u[2] = i)

IsSkippedResult(r) ==
  /\ r.generation_time_s = 0
  /\ r.estimated_cost_usd = 0
  /\ r.success = TRUE

\* an identical job was uploaded before the current one, in this run or an
\* earlier one
UploadedBefore(job, run, i) ==
  \E u \in uploads :
    /\ u[4] = job
    /\ u[1] < run \/ (u[1] = run /\ u[2] < i)

\* the run ended by leaving the job loop
AllAttempted == Len(outcome) = Len(jobs)

JobOk(i) == i \in Ended /\ outcome[i].how \in {"done", "skipped"}

(***************************************************************************)
(* C1                                                                      *)
(***************************************************************************)
\* C1 as stated: every job whose destination key is in storage when its
\* existence check runs gets the skipped JobResult (generation time 0,
\* cost 0, success) and generates, writes and uploads nothing.
C1_KeyPresentIsSkipped ==
  /\ PastCheck => s3_filename \notin storage
  /\ \A i \in Ended :
       outcome[i].present =>
         /\ i \in Returned
         /\ IsSkippedResult(ResultOf(i))
         /\ DidNothing(i)

\* C1, amended: every job whose key is in storage and whose head request
\* succeeds, so that the existence check answers true, gets the skipped
\* JobResult (generation time 0, cost 0, success) and generates, writes and
\* uploads nothing; no job whose head request succeeded goes on to generate.
C1_FoundIsSkipped ==
  /\ PastCheck => head # "found"
  /\ \A i \in Ended :
       outcome[i].found =>
         /\ outcome[i].present
         /\ i \in Returned
         /\ ResultOf(i).s3_filename = outcome[i].key
         /\ IsSkippedResult(ResultOf(i))
         /\ DidNothing(i)

C1_Witness ==
  \E i \in Ended : outcome[i].found /\ outcome[i].how = "skipped"

(***************************************************************************)
(* C2                                                                      *)
(***************************************************************************)
\* C2 as stated: once an identical job was uploaded, no later processing of
\* it, in the same run or a later one, reaches the generation adapter: it
\* is skipped.
C2_NoRegeneration ==
  /\ PastCheck => ~UploadedBefore(CurrentJob, runNo, jobIdx)
  /\ \A i \in Ended :
       UploadedBefore(jobs[i], runNo, i) => outcome[i].how = "skipped"

\* C2, amended: once an identical job was uploaded, its key is in storage at
\* every later processing of it, and that processing is skipped whenever
\* its head request succeeds; it generates again only when the head request
\* failed with a ClientError, and gets no result when it failed otherwise.
C2_SkippedUnlessHeadFails ==
  /\ PastCheck /\ UploadedBefore(CurrentJob, runNo, jobIdx)
       => s3_filename \in storage /\ head = "client_error"
  /\ \A i \in Ended :
       UploadedBefore(jobs[i], runNo, i) =>
         /\ outcome[i].present
         /\ outcome[i].found => outcome[i].how = "skipped" /\ DidNothing(i)
         /\ outcome[i].how # "skipped" => ~outcome[i].found

C2_Witness ==
  \E i \in Ended :
    /\ UploadedBefore(jobs[i], runNo, i)
    /\ outcome[i].how = "skipped"
    /\ runNo > 1

(***************************************************************************)
(* C3                                                                      *)
(***************************************************************************)
\* C3 as stated: once the job file is parsed, the exit code is 0 if every
\* parsed job succeeded or was skipped, and non-zero if at least one job
\* failed.
C3_ExitCodeByJobs ==
  pc = "exited" /\ parsed =>
    /\ (\A i \in 1..Len(jobs) : JobOk(i)) => exit_code = 0
    /\ (\E i \in 1..Len(jobs) : ~JobOk(i)) => exit_code # 0

\* C3, amended: the exit code is 0 exactly when at least one job was parsed
\* and every parsed job succeeded or was skipped; it is 1 when at least one
\* job failed, and also when no job was parsed (an empty job list, or the
\* model failed to initialise).
C3_ExitCodeByJobsNonEmpty ==
  pc = "exited" =>
    /\ exit_code \in {0, 1}
    /\ exit_code = 0 <=> (jobs # <<>> /\ \A i \in 1..Len(jobs) : JobOk(i))

C3_Witness ==
  /\ pc = "exited"
  /\ exit_code = 0
  /\ Len(jobs) >= 2
  /\ \E i \in Ended : outcome[i].how = "done"

(***************************************************************************)
(* C4                                                                      *)
(***************************************************************************)
Raised == {"generation_raised", "temp_file_raised", "write_raised", "crashed"}

SomeJobRaisedInGeneration ==
  \E i \in Ended : outcome[i].how = "generation_raised"

\* C4 as stated: when some job raised during generation, the run ends with
\* exactly one JobResult per parsed job, in job order; the jobs that did not
\* raise have success = true, the job that raised has success = false and a
\* non-empty error_message, and the exit code is not 0.
C4_PartialFailureIsolation ==
  pc = "exited" /\ SomeJobRaisedInGeneration =>
    /\ Len(job_results) = Len(jobs)
    /\ \A i \in 1..Len(jobs) :
         /\ job_results[i].s3_filename = outcome[i].key
         /\ outcome[i].how \notin Raised => job_results[i].success = TRUE
         /\ outcome[i].how = "generation_raised" =>
              /\ job_results[i].success = FALSE
              /\ job_results[i].error_message \notin {"", NoneValue}
    /\ exit_code # 0

\* C4, amended: when some job raised during generation, the run ends with
\* every job attempted and exactly one JobResult, in job order, per job whose
\* process_job returned (every job but those whose existence check raised);
\* the jobs that were uploaded or skipped have success = true, the job that
\* raised has success = false and the exception's text, which may be empty,
\* as error_message, and the exit code is 1.
C4_IsolationOfReturnedJobs ==
  pc = "exited" /\ SomeJobRaisedInGeneration =>
    /\ AllAttempted
    /\ Len(job_results) = Cardinality(Returned)
    /\ \A i \in Returned :
         /\ ResultOf(i).s3_filename = outcome[i].key
         /\ ResultOf(i).prompt = jobs[i][1]
         /\ ResultOf(i).requested_duration_s = jobs[i][2]
         /\ outcome[i].how \in {"done", "skipped"} => ResultOf(i).success = TRUE
         /\ outcome[i].how = "generation_raised" =>
              /\ ResultOf(i).success = FALSE
              /\ ResultOf(i).error_message \in ErrorTexts
    /\ exit_code = 1

\* the first job raised in generation, the second was generated and uploaded
C4_Witness ==
  /\ pc = "exited"
  /\ Len(jobs) = 2
  /\ Len(outcome) = 2
  /\ outcome[1].how = "generation_raised"
  /\ outcome[2].how = "done"

(***************************************************************************)
(* C5                                                                      *)
(***************************************************************************)
\* the calls to the environment that took time before job i ended
TimedCalls(i) ==
  LET n == Len(outcome[i].chunks)
  IN  CASE outcome[i].how = "generation_raised" -> n + 1
        [] outcome[i].how = "temp_file_raised"  -> n
        [] outcome[i].how = "write_raised"      -> n + 1
        [] outcome[i].how = "upload_failed"     -> n + 2
        [] outcome[i].how = "done"              -> n + 2
        [] OTHER                                -> 0

FailedInJob ==
  {"generation_raised", "temp_file_raised", "write_raised", "upload_failed"}

\* C5: a job whose generation, encoding or upload failed gets a JobResult
\* with success = false, the time elapsed until the failure and the cost of
\* that time; the exception does not leave process_job (the job has a
\* result), and the run goes on: it leaves the loop only after every job.
C5_FailureBecomesResult ==
  /\ \A i \in Ended :
       outcome[i].how \in FailedInJob =>
         LET result == ResultOf(i)
             calls == TimedCalls(i)
         IN  /\ i \in Returned
             /\ result.s3_filename = outcome[i].key
             /\ result.success = FALSE
             /\ result.generation_time_s = outcome[i].elapsed
             /\ result.generation_time_s >= calls
             /\ result.generation_time_s <= calls + 1
             /\ result.estimated_cost_usd
                  = result.generation_time_s * hourly_cost_usd
  /\ (\E i \in Ended : outcome[i].how \in FailedInJob) =>
       /\ pc \in {"upload_cost_report", "exit"} => AllAttempted
       /\ pc = "exited" => AllAttempted /\ exit_code = 1

\* a job failed while encoding and the next job was processed
C5_Witness ==
  /\ Len(outcome) = 2
  /\ outcome[1].how = "write_raised"
  /\ outcome[2].how = "done"
  /\ job_results[1].generation_time_s > 0

(***************************************************************************)
(* C6                                                                      *)
(***************************************************************************)
\* C6: once the job loop has started, the run is past the loop, and exits,
\* only after every parsed job was attempted, whatever failed.
C6_ExitAfterAllJobs ==
  /\ pc \in {"upload_cost_report", "exit"} => AllAttempted
  /\ pc = "exited" /\ jobs # <<>> => AllAttempted
  /\ pc \in {"next_job", "check_s3_file_exists"} \/ PastCheck => exit_code = 0

\* the first job failed and the run exited with 1 after the second
C6_Witness ==
  /\ pc = "exited"
  /\ exit_code = 1
  /\ Len(jobs) = 2
  /\ Len(outcome) = 2
  /\ outcome[1].how \in FailedInJob

(***************************************************************************)
(* C7                                                                      *)
(***************************************************************************)
\* C7 as stated: no temp file created by a job exists once the job's
\* JobResult has been returned.
C7_TempFileRemoved ==
  \A i \in Ended : outcome[i].temp # <<>> => outcome[i].temp \notin tempFiles

RECURSIVE SumSeq(_)
SumSeq(q) == IF q = <<>> THEN 0 ELSE q[1] + SumSeq(Tail(q))

\* ceil(d / c) for positive c
CeilDiv(d, c) == (d + c - 1) \div c

AllWithinCeiling(q) ==
  \A k \in 1..Len(q) : q[k] >= 1 /\ q[k] <= max_length_seconds

\* the chunks of a generate_audio(duration) that returned
ChunkedExactly(q, duration) ==
  /\ Len(q) = CeilDiv(duration, max_length_seconds)
  /\ AllWithinCeiling(q)
  /\ SumSeq(q) = duration

GenerationReturned ==
  {"temp_file_raised", "write_raised", "upload_failed", "done"}

\* C9: for every duration D >= 1, while generate_audio runs the chunks
\* generated so far are each between 1 and 30 seconds, fewer than
\* ceil(D / 30), and together with the remaining duration, which is
\* positive, add up to D; when generate_audio has returned it has issued
\* exactly ceil(D / 30) generation calls whose durations, each between 1
\* and 30, sum to D.
C9_Chunking ==
  /\ pc = "generate_audio" =>
       /\ AllWithinCeiling(chunks)
       /\ remaining_duration >= 1
       /\ SumSeq(chunks) + remaining_duration = CurrentJob[2]
       /\ Len(chunks) < CeilDiv(CurrentJob[2], max_length_seconds)
  /\ pc \in {"create_temp_file", "write_audio", "upload_to_s3"} =>
       ChunkedExactly(chunks, CurrentJob[2])
  /\ \A i \in Ended :
       outcome[i].how \in GenerationReturned =>
         ChunkedExactly(outcome[i].chunks, jobs[i][2])

\* a duration that is no multiple of the ceiling was generated in three
\* chunks, the last one shorter
C9_Witness ==
  /\ pc = "create_temp_file"
  /\ Len(chunks) = 3
  /\ chunks[3] < max_length_seconds
  /\ CurrentJob[2] > 2 * max_length_seconds

(***************************************************************************)
(* C10                                                                     *)
(***************************************************************************)
HexDigitSet == {HexDigits[k] : k \in 1..Len(HexDigits)}

\* key is <stem>_<8 hex>.wav for the file name's stem: the name without
\* its last four characters, the audio extension
HasKeyShape(key, filename) ==
  LET stem == SubSeq(filename, 1, Len(filename) - 4)
      n == Len(stem)
  IN  /\ Len(key) = n + 1 + 8 + 4
      /\ SubSeq(key, 1, n) = stem
      /\ key[n + 1] = "_"
      /\ \A k \in (n + 2)..(n + 9) : key[k] \in HexDigitSet
      /\ SubSeq(key, n + 10, n + 13) = <<".", "w", "a", "v">>

\* C10: a job of duration D whose key was not in storage and whose
\* generation, encoding and upload succeeded made exactly ceil(D / 30)
\* generation calls (for D = 45: 30 then 15) and exactly one upload, of an
\* object stored under its key, which is <stem>_<8 hex>.wav.
C10_EndToEnd ==
  \A i \in Ended :
    outcome[i].how = "done" /\ ~outcome[i].present =>
      /\ Len(outcome[i].chunks) = CeilDiv(jobs[i][2], max_length_seconds)
      /\ jobs[i][2] = 45 => outcome[i].chunks = <<30, 15>>
      /\ {u \in uploads : u[1] = runNo /\ u[2] = i}
           = {<<runNo, i, outcome[i].key, jobs[i]>>}
      /\ outcome[i].key \in storage
      /\ HasKeyShape(outcome[i].key, jobs[i][3])
      /\ ResultOf(i).s3_filename = outcome[i].key
      /\ ResultOf(i).success = TRUE

\* the 45-second job ended uploaded
C10_Witness ==
  \E i \in Ended :
    /\ outcome[i].how = "done"
    /\ ~outcome[i].present
    /\ jobs[i][2] = 45
    /\ outcome[i].chunks = <<30, 15>>

(***************************************************************************)
(* C11                                                                     *)
(***************************************************************************)
\* the content generate_deterministic_filename hashes for a job
ContentOf(job) == job[1] \o <<"|">> \o Decimal(job[2]) \o <<"|">> \o job[3]

\* key is <stem>_<8 hex>.wav, the stem being os.path.splitext's
KeyHasShape(key, base_name) ==
  LET n == Len(SplitExtStem(base_name))
  IN  /\ Len(key) = n + 1 + 8 + 4
      /\ SubSeq(key, 1, n) = SplitExtStem(base_name)
      /\ key[n + 1] = "_"
      /\ \A k \in (n + 2)..(n + 9) : key[k] \in HexDigitSet
      /\ SubSeq(key, n + 10, n + 13) = <<".", "w", "a", "v">>

\* the keys of the jobs that ended: equal for equal jobs, whatever the
\* bucket and the results held when each key was computed, and of the shape
KeysAreDeterministic ==
  /\ \A i \in Ended, k \in Ended :
       jobs[i] = jobs[k] => outcome[i].key = outcome[k].key
  /\ \A i \in Ended : KeyHasShape(outcome[i].key, jobs[i][3])
  /\ pc \in {"check_s3_file_exists", "generate_audio", "create_temp_file",
             "write_audio", "upload_to_s3"} =>
       /\ KeyHasShape(s3_filename, CurrentJob[3])
       /\ \A i \in Ended : jobs[i] = CurrentJob => outcome[i].key = s3_filename

\* the step of run that computes a job's key changes nothing but the loop
\* index, the key and the position
KeyCallChangesNothing ==
  pc = "next_job" /\ pc' = "check_s3_file_exists" =>
    UNCHANGED <<environ, promptsFile, promptsReadable, storage, tempFiles, runNo,
                exit_code, jobs, job_results, report_success, csv_content,
                uploads, latest_report>>

\* C11: generate_deterministic_filename is pure and deterministic: calls
\* with identical (prompt, duration, base_name) return the identical key
\* in whatever state they are made, a call changes no worker or storage
\* state, and the key is stem(base_name) + "_" + 8 hex characters + ".wav".
C11_KeyIsPure == [](KeysAreDeterministic) /\ [][KeyCallChangesNothing]_vars

\* a line is processed twice in one run, the second time with its object
\* in the bucket and a result recorded
C11_Witness ==
  /\ Len(outcome) = 2
  /\ jobs[1] = jobs[2]
  /\ outcome[1].how = "done"
  /\ outcome[2].present
  /\ Len(job_results) = 2

(***************************************************************************)
(* C12                                                                     *)
(***************************************************************************)
\* two jobs of the run that ended and differ in an argument
DifferentJobs == {p \in Ended \X Ended : jobs[p[1]] # jobs[p[2]]}

\* the two jobs share the stem of the file name and the 8 hex digits of
\* the digest of their contents
SameStemAndPrefix(a, b) ==
  /\ SplitExtStem(a[3]) = SplitExtStem(b[3])
  /\ Md5Prefix(ContentOf(a)) = Md5Prefix(ContentOf(b))

\* job i was skipped although no equal job was uploaded before it
SkippedForAnother(i) ==
  /\ outcome[i].how = "skipped"
  /\ ~\E k \in 1..(i - 1) : jobs[k] = jobs[i] /\ outcome[k].how = "done"

FieldsOfLine(text) == PartsOf(Strip(text))

\* a blank line or a comment
IsIgnoredLine(text) ==
  LET stripped == Strip(text)
  IN  stripped = <<>> \/ stripped[1] = "#"

\* a line that is neither ignored nor has three fields of which the second
\* is a positive integer
IsMalformedLine(text) ==
  LET fields == FieldsOfLine(text)
  IN  /\ ~IsIgnoredLine(text)
      /\ \/ Len(fields) # 3
         \/ ~IsIntText(fields[2])
         \/ IntOf(fields[2]) <= 0

IsValidLine(text) == ~IsIgnoredLine(text) /\ ~IsMalformedLine(text)

\* the positions of the valid lines of the file, and the k-th of them
ValidIndexes == {i \in 1..Len(promptsFile) : IsValidLine(promptsFile[i])}

KthValid(k) ==
  LET valid == ValidIndexes
  IN  CHOOSE i \in valid : Cardinality({m \in valid : m <= i}) = k

\* parse_prompts_file has read the file and returned
ParseReturned == parsed /\ promptsReadable

\* C13: every valid line (three fields, duration a positive integer) yields
\* a job whose duration is that positive integer and whose file name ends
\* with the extension .wav in some letter case: the name of the line when
\* it carries the extension already, otherwise the name with .wav appended.
C13_ValidLineBecomesJob ==
  ParseReturned =>
    /\ Len(jobs) = Cardinality(ValidIndexes)
    /\ \A k \in 1..Len(jobs) :
         LET fields == FieldsOfLine(promptsFile[KthValid(k)])
         IN  /\ jobs[k][2] \in Nat \ {0}
             /\ jobs[k][2] = IntOf(fields[2])
             /\ EndsWith(Lower(jobs[k][3]), WavExt)
             /\ jobs[k][3] = IF EndsWith(Lower(fields[3]), WavExt)
                             THEN fields[3]
                             ELSE fields[3] \o WavExt

\* the file held a name with the extension in capitals and a name without
\* the extension, and both became jobs
C13_Witness ==
  /\ ParseReturned
  /\ \E k \in 1..Len(jobs) : jobs[k][3] = <<"b", ".", "W", "A", "V">>
  /\ \E k \in 1..Len(jobs) : jobs[k][3] = <<"c", ".", "w", "a", "v">>

\* the positions of the lines that yield no job
SkippedIndexes ==
  {i \in 1..Len(promptsFile) :
     IsMalformedLine(promptsFile[i]) \/ IsIgnoredLine(promptsFile[i])}

\* the prompts of the valid lines, in file order
RECURSIVE ValidPrompts(_)
ValidPrompts(i) ==
  IF i > Len(promptsFile) THEN <<>>
  ELSE (IF IsMalformedLine(promptsFile[i]) \/ IsIgnoredLine(promptsFile[i])
        THEN <<>>
        ELSE <<FieldsOfLine(promptsFile[i])[1]>>) \o ValidPrompts(i + 1)

\* C14: a malformed line (a field count other than 3, a duration that is
\* no number or is not positive), a blank line and a comment line add no
\* job and do not stop the parsing: parse_prompts_file returns, with one
\* job for each other line, those after a skipped line included, and with
\* no job for a file of skipped lines only.
C14_MalformedLineSkipped ==
  ParseReturned =>
    /\ pc \in {"next_job", "exited"}
    /\ Len(jobs) = Len(promptsFile) - Cardinality(SkippedIndexes)
    /\ [k \in 1..Len(jobs) |-> jobs[k][1]] = ValidPrompts(1)
    /\ \A k \in 1..Len(jobs) : jobs[k][2] > 0
    /\ SkippedIndexes = 1..Len(promptsFile) => jobs = <<>>

\* a file whose first line is malformed and whose last line is valid was
\* parsed to the job of the last line
C14_Witness ==
  /\ ParseReturned
  /\ Len(promptsFile) >= 2
  /\ IsMalformedLine(promptsFile[1])
  /\ IsValidLine(promptsFile[Len(promptsFile)])
  /\ jobs # <<>>
  /\ jobs[Len(jobs)][1] = FieldsOfLine(promptsFile[Len(promptsFile)])[1]

\* the job the contract gives for a valid line
JobOfLine(text) ==
  LET fields == FieldsOfLine(text)
  IN  <<fields[1], IntOf(fields[2]),
        IF EndsWith(Lower(fields[3]), WavExt) THEN fields[3]
        ELSE fields[3] \o WavExt>>

\* C15: parse_prompts_file returns the jobs of the valid lines in file
\* order, one job per valid line: identical valid lines give identical
\* jobs, each at the position of its line among the valid lines.
C15_FileOrderNoDedup ==
  ParseReturned =>
    jobs = [k \in 1..Cardinality(ValidIndexes) |->
              JobOfLine(promptsFile[KthValid(k)])]

\* a file with the same valid line twice and another valid line between
\* them was parsed to three jobs, the first and the last equal
C15_Witness ==
  /\ ParseReturned
  /\ Len(promptsFile) = 3
  /\ promptsFile[1] = promptsFile[3]
  /\ promptsFile[1] # promptsFile[2]
  /\ Len(jobs) = 3
  /\ jobs[1] = jobs[3]
  /\ jobs[1] # jobs[2]

(***************************************************************************)
(* C16                                                                     *)
(***************************************************************************)
NotMalformed(text) == ~IsMalformedLine(text)

\* the job file with its malformed lines removed
WithoutMalformed == SelectSeq(promptsFile, NotMalformed)

HasMalformedLine == \E i \in 1..Len(promptsFile) : IsMalformedLine(promptsFile[i])

\* the run parses the file to the jobs of the file without its malformed
\* lines; all that follows in the run is a function of these jobs
ParsedAsWithoutMalformed ==
  jobs = parse_prompts_file(promptsReadable, WithoutMalformed)

IsMissing(value) == value = Unset \/ Strip(value) = <<>>

\* the naming rules the worker holds a bucket name to: 3 to 63 characters,
\* each a lower-case letter, a digit, a dot or a hyphen, no hyphen at either
\* end and no two dots in a row
FollowsBucketNameRules(name) ==
  /\ Len(name) \in 3..63
  /\ \A i \in 1..Len(name) :
       \/ name[i] \in DigitSet \cup {".", "-"}
       \/ \E k \in 1..Len(LowerLetters) : LowerLetters[k] = name[i]
  /\ name[1] # "-" /\ name[Len(name)] # "-"
  /\ \A i \in 1..(Len(name) - 1) : <<name[i], name[i + 1]>> # <<".", ".">>

\* a configuration error: the access key, the secret key or the bucket is
\* missing, no region is given in either variable, or the bucket name is
\* not valid
ConfigurationError ==
  \/ IsMissing(environ["AWS_ACCESS_KEY_ID"])
  \/ IsMissing(environ["AWS_SECRET_ACCESS_KEY"])
  \/ IsMissing(environ["MUSICGEN_S3_BUCKET"])
  \/ IsMissing(environ["AWS_DEFAULT_REGION"]) /\ environ["AWS_REGION"] = Unset
  \/ ~FollowsBucketNameRules(Strip(environ["MUSICGEN_S3_BUCKET"]))

\* C17: with a configuration error the constructor raises and the process
\* ends, with a non-zero code, before the model is initialised, before the
\* job file is parsed and before any job is attempted or any object is
\* written to storage.
C17_ConfigurationErrorIsFatal ==
  ConfigurationError =>
    /\ pc \in {"validate_aws_environment", "exited"}
    /\ pc = "exited" => exit_code = 1
    /\ ~parsed
    /\ jobs = <<>>
    /\ jobIdx = 0
    /\ outcome = <<>>
    /\ job_results = <<>>
    /\ storage = {}
    /\ tempFiles = {}
    /\ uploads = {}
  /\ latest_report = NoReport
  /\ ScriptNotRun

\* the process ended on a bucket name in capitals, all variables being set
C17_Witness ==
  /\ pc = "exited"
  /\ exit_code = 1
  /\ environ["MUSICGEN_S3_BUCKET"] = <<"A", "b", "c">>
  /\ ~IsMissing(environ["AWS_ACCESS_KEY_ID"])
  /\ ~IsMissing(environ["AWS_SECRET_ACCESS_KEY"])
  /\ ~IsMissing(environ["AWS_DEFAULT_REGION"])

(***************************************************************************)
(* C18, C19, C20: the cost report                                          *)
(***************************************************************************)
\* upload_cost_report has built the report
ReportBuilt == pc \in {"exit", "exited"} /\ parsed /\ csv_content # <<>>

\* the lines of the report
CsvLines == Split(csv_content, "\n")

IsTotalLine(line) == StartsWith(line, <<"TOTAL,">>)

\* the lines after the header that are neither empty nor the summary
DataRowIndexes ==
  {i \in 2..Len(CsvLines) : CsvLines[i] # <<>> /\ ~IsTotalLine(CsvLines[i])}

\* the positions in job_results of the results with success = true, and
\* the k-th of them
SuccessIndexes == {i \in 1..Len(job_results) : job_results[i].success}

KthSuccess(k) ==
  job_results[CHOOSE i \in SuccessIndexes :
                Cardinality({m \in SuccessIndexes : m <= i}) = k]

\* C18: the cost report has one data row per JobResult with success =
\* true, in result order (the k-th row after the header holds the key,
\* the time and the cost of the k-th successful result), and no row for a
\* JobResult with success = false.
C18_RowsAreSuccesses ==
  ReportBuilt =>
    /\ CsvLines[1] = ReportHeader
    /\ DataRowIndexes = 2..(Cardinality(SuccessIndexes) + 1)
    /\ \A k \in 1..Cardinality(SuccessIndexes) :
         /\ StartsWith(CsvLines[k + 1],
                       <<"\"">> \o KthSuccess(k).s3_filename \o <<"\"", ",">>)
         /\ EndsWith(CsvLines[k + 1],
                     <<",">> \o Decimal(KthSuccess(k).requested_duration_s)
                       \o <<",">> \o FormatTime(KthSuccess(k).generation_time_s)
                       \o <<",">> \o FormatCost(KthSuccess(k).estimated_cost_usd))

\* a report of a success, a failure and another success has two rows
C18_Witness ==
  /\ ReportBuilt
  /\ Len(job_results) = 3
  /\ job_results[1].success /\ ~job_results[2].success /\ job_results[3].success
  /\ job_results[1] # job_results[3]
  /\ Cardinality(DataRowIndexes) = 2

TotalLineIndexes == {i \in 1..Len(CsvLines) : IsTotalLine(CsvLines[i])}

\* C19: with no successful JobResult (an empty list or failures only) the
\* report is exactly the header row, ended by a newline, with no TOTAL
\* line; with at least one success it has a TOTAL line, its last line,
\* after an empty line.
C19_HeaderOnlyWithoutSuccess ==
  ReportBuilt =>
    IF SuccessIndexes = {}
    THEN /\ csv_content = ReportHeader \o <<"\n">>
         /\ TotalLineIndexes = {}
    ELSE /\ TotalLineIndexes = {Len(CsvLines)}
         /\ CsvLines[Len(CsvLines) - 1] = <<>>
         /\ Len(CsvLines) = Cardinality(SuccessIndexes) + 3

\* a report was built of failures only
C19_Witness ==
  /\ ReportBuilt
  /\ Len(job_results) >= 2
  /\ SuccessIndexes = {}
  /\ csv_content = ReportHeader \o <<"\n">>

\* the times and the costs of the successful results, in result order
SuccessTimes ==
  [k \in 1..Cardinality(SuccessIndexes) |-> KthSuccess(k).generation_time_s]

SuccessCosts ==
  [k \in 1..Cardinality(SuccessIndexes) |-> KthSuccess(k).estimated_cost_usd]

\* the results are two successes that cost 1.5 and 2.5 dollars, in units
\* of 1/3,600,000 dollar
CostsOneAndAHalfAndTwoAndAHalf ==
  /\ Len(job_results) = 2
  /\ job_results[1].success /\ job_results[2].success
  /\ job_results[1].estimated_cost_usd = 5400000
  /\ job_results[2].estimated_cost_usd = 9000000

\* C20: the TOTAL row holds the number of successful results, the sum of
\* their generation times to two decimals and the sum of their estimated
\* costs to four, and nothing of the failed results; two successes that
\* cost 1.5 and 2.5 give the cost field 4.0000.
C20_TotalRow ==
  ReportBuilt /\ SuccessIndexes # {} =>
    /\ CsvLines[Len(CsvLines)] =
         <<"TOTAL,">> \o Decimal(Cardinality(SuccessIndexes)) \o <<" files,,">>
           \o FormatTime(SumSeq(SuccessTimes)) \o <<",">>
           \o FormatCost(SumSeq(SuccessCosts))
    /\ CostsOneAndAHalfAndTwoAndAHalf =>
         EndsWith(CsvLines[Len(CsvLines)], <<",", "4", ".", "0", "0", "0", "0">>)

\* the report of the two successes that cost 1.5 and 2.5 was built
C20_Witness ==
  /\ ReportBuilt
  /\ CostsOneAndAHalfAndTwoAndAHalf
  /\ CsvLines[Len(CsvLines)] =
       <<"TOTAL,", "2", " files,,", "8", ".", "0", "0", ",",
         "4", ".", "0", "0", "0", "0">>

(***************************************************************************)
(* C21, C22: the upload of the cost report                                 *)
(***************************************************************************)
\* upload_cost_report was called in this run and has returned
ReportCalled == pc \in {"exit", "exited"} /\ csv_content # <<>>

\* C21 as stated: after every run whose upload_cost_report answered True
\* the report is in storage under the timestamped key and under
\* cost_report_latest.csv, and the "latest" object holds the text of the
\* report of this run, the most recent one.
C21_LatestHoldsMostRecent ==
  ReportCalled /\ report_success =>
    /\ ReportKey \in storage
    /\ ReportLatestKey \in storage
    /\ latest_report = csv_content

\* C22: once upload_cost_report has returned, the exit code is a function
\* of the job outcomes alone: 0 when every parsed job was uploaded or
\* skipped, 1 otherwise, whatever upload_cost_report answered and stored.
C22_ExitCodeIgnoresReport ==
  ReportCalled /\ pc = "exited" =>
    exit_code = IF \A i \in 1..Len(jobs) : JobOk(i) THEN 0 ELSE 1

\* a run of successful jobs ended with code 0 although its report was
\* not uploaded
C22_Witness ==
  /\ ReportCalled
  /\ pc = "exited"
  /\ ~report_success
  /\ ReportKey \notin storage
  /\ exit_code = 0

(***************************************************************************)
(* C23: the states of a job                                                *)
(***************************************************************************)
\* the state of job i of the run: PENDING before the loop reaches it, its
\* place in process_job while that runs, and how it ended afterwards;
\* CRASHED is a process_job that raised and returned no JobResult
StateOf(i) ==
  IF i \in Ended
  THEN (CASE outcome[i].how = "skipped" -> "SKIPPED"
          [] outcome[i].how = "done"    -> "DONE"
          [] outcome[i].how = "crashed" -> "CRASHED"
          [] OTHER                      -> "FAILED")
  ELSE IF i # jobIdx THEN "PENDING"
  ELSE (CASE pc = "check_s3_file_exists" -> "EXISTS_CHECK"
          [] pc = "generate_audio"       -> "GENERATING"
          [] pc \in {"create_temp_file", "write_audio"} -> "ENCODING"
          [] pc = "upload_to_s3"         -> "UPLOADING"
          [] OTHER                       -> "PENDING")

\* the transitions the contract lists, FAILED taken as reachable from each
\* of GENERATING, ENCODING and UPLOADING
ListedTransitions ==
  { <<"PENDING", "EXISTS_CHECK">>,
    <<"EXISTS_CHECK", "SKIPPED">>,
    <<"EXISTS_CHECK", "GENERATING">>,
    <<"GENERATING", "GENERATING">>,
    <<"GENERATING", "ENCODING">>,
    <<"ENCODING", "ENCODING">>,
    <<"ENCODING", "UPLOADING">>,
    <<"UPLOADING", "DONE">>,
    <<"GENERATING", "FAILED">>,
    <<"ENCODING", "FAILED">>,
    <<"UPLOADING", "FAILED">> }

\* a step moves every job along one of `transitions` or leaves it
MovesAlong(transitions) ==
  \A i \in 1..Len(jobs) :
    StateOf(i)' # StateOf(i) => <<StateOf(i), StateOf(i)'>> \in transitions

\* the upload of a job is attempted only when generation has produced the
\* whole duration and the audio is written to the job's temporary file
UploadAfterEncoding ==
  pc = "upload_to_s3" =>
    /\ SumSeq(chunks) = CurrentJob[2]
    /\ remaining_duration = 0
    /\ temp_filepath \in tempFiles

\* a skipped job made no generation call
SkippedNeverGenerated ==
  \A i \in Ended : outcome[i].how = "skipped" => outcome[i].chunks = <<>>

\* the run is past its job loop
LoopLeft ==
  parsed /\ jobs # <<>> /\ pc \in {"upload_cost_report", "exit", "exited"}

\* C23 as stated: every job moves only along the listed transitions, is
\* uploaded only after generation and encoding, never generates when
\* skipped, and has ended in one of SKIPPED, DONE or FAILED when the loop
\* is left.
C23_OnlyListedTransitions ==
  /\ [][MovesAlong(ListedTransitions)]_vars
  /\ [](UploadAfterEncoding /\ SkippedNeverGenerated)
  /\ [](LoopLeft => \A i \in 1..Len(jobs) :
                      StateOf(i) \in {"SKIPPED", "DONE", "FAILED"})

\* C23, amended: every job moves only along the listed transitions or from
\* EXISTS_CHECK to CRASHED, the end of a job whose existence check raised
\* an exception that is no ClientError and that gets no JobResult; it is
\* uploaded only after generation and encoding, never generates when
\* skipped, and has ended in exactly one of SKIPPED, DONE, FAILED or
\* CRASHED when the loop is left, with a JobResult unless it is CRASHED.
C23_ListedTransitionsOrCrash ==
  /\ [][MovesAlong(ListedTransitions \cup {<<"EXISTS_CHECK", "CRASHED">>})]_vars
  /\ [](UploadAfterEncoding /\ SkippedNeverGenerated)
  /\ [](LoopLeft =>
          /\ \A i \in 1..Len(jobs) :
               StateOf(i) \in {"SKIPPED", "DONE", "FAILED", "CRASHED"}
          /\ Len(job_results) =
               Cardinality({i \in 1..Len(jobs) : StateOf(i) # "CRASHED"}))

\* a run of two jobs ended with one job uploaded after two generation
\* calls and the other crashed in its existence check
C23_Witness ==
  /\ LoopLeft
  /\ Len(jobs) = 2
  /\ \E i, j \in 1..2 :
       /\ StateOf(i) = "DONE" /\ Len(outcome[i].chunks) = 2
       /\ StateOf(j) = "CRASHED"

(***************************************************************************)
(* C24: one job at a time, in file order                                   *)
(***************************************************************************)
InProcess == {"EXISTS_CHECK", "GENERATING", "ENCODING", "UPLOADING"}
Final == {"SKIPPED", "DONE", "FAILED", "CRASHED"}

\* at most one job is in process_job; the jobs before it have ended and
\* the jobs after it are not started
OneJobInProcess ==
  /\ Cardinality({i \in 1..Len(jobs) : StateOf(i) \in InProcess}) <= 1
  /\ \A i \in 1..Len(jobs) :
       StateOf(i) # "PENDING" =>
         \A k \in 1..(i - 1) : StateOf(k) \in Final
  /\ Len(outcome) \in {jobIdx - 1, jobIdx} \cap Nat

\* job_results holds the results of the jobs that returned one, in job
\* order
ResultsInJobOrder ==
  /\ Len(job_results) = Cardinality(Returned)
  /\ \A i \in Returned :
       /\ ResultOf(i).prompt = jobs[i][1]
       /\ ResultOf(i).requested_duration_s = jobs[i][2]
       /\ ResultOf(i).s3_filename = outcome[i].key

\* the loop starts job jobIdx + 1 only when jobs 1..jobIdx have ended, and
\* never goes back
StartsNextAfterEnd ==
  jobIdx' # jobIdx =>
    /\ jobIdx' = jobIdx + 1
    /\ Len(outcome) = jobIdx
    /\ \A k \in 1..jobIdx : StateOf(k) \in Final

\* C24: jobs are processed one at a time in file order: at most one job
\* is between its existence check and its end, job i+1 is started only
\* after job i has ended, and job_results lists the results in job order.
C24_OneJobAtATime ==
  /\ [](parsed => OneJobInProcess /\ ResultsInJobOrder)
  /\ [][StartsNextAfterEnd]_vars

\* the second of two different jobs is being generated and the result of
\* the first is recorded
C24_Witness ==
  /\ Len(jobs) = 2
  /\ jobs[1] # jobs[2]
  /\ StateOf(1) \in {"DONE", "FAILED"}
  /\ StateOf(2) = "GENERATING"
  /\ Len(job_results) = 1
  /\ job_results[1].prompt = jobs[1][1]

(***************************************************************************)
(* C25: the cost of a job                                                  *)
(***************************************************************************)
\* the jobs with a JobResult that were not skipped
Worked == {i \in Returned : outcome[i].how # "skipped"}

\* C25: the JobResult of every job that was not skipped records as
\* generation_time_s the time from the existence check to the end of the
\* upload attempt or to the exception, which covers every generation
\* call, the write and the upload made, and as estimated_cost_usd that
\* time multiplied by the hourly rate, the same rate for every job.
C25_CostIsElapsedTimesRate ==
  \A i \in Worked :
    LET result == ResultOf(i)
        calls == TimedCalls(i)
    IN  /\ result.generation_time_s = outcome[i].elapsed
        /\ result.generation_time_s >= calls
        /\ result.generation_time_s <= calls + 1
        /\ result.estimated_cost_usd = result.generation_time_s * hourly_cost_usd
        /\ \A k \in Worked :
             LET other == ResultOf(k)
             IN  result.estimated_cost_usd * other.generation_time_s
                   = other.estimated_cost_usd * result.generation_time_s

\* a run recorded an uploaded job and a job that raised, with different
\* times and costs
C25_Witness ==
  \E i, k \in Worked :
    /\ outcome[i].how = "done"
    /\ outcome[k].how = "generation_raised"
    /\ ResultOf(i).generation_time_s = 5
    /\ ResultOf(i).estimated_cost_usd = 5 * hourly_cost_usd
    /\ ResultOf(k).generation_time_s = 1
    /\ ResultOf(k).estimated_cost_usd = hourly_cost_usd

(***************************************************************************)
(* C26: a job without a JobResult and the exit code                        *)
(***************************************************************************)
\* the jobs whose process_job raised
Crashed == {i \in Ended : outcome[i].how = "crashed"}

\* the JobResults with success = true
TrueResults == {k \in 1..Len(job_results) : job_results[k].success}

\* C26: run exits 0 only if the number of JobResults with success = true
\* equals the number of parsed jobs; a job whose process_job raised, for
\* which run appended no JobResult, counts as failed: the run exits 1
\* also when every JobResult it holds is a success.
C26_MissingResultCountsAsFailed ==
  ReportCalled /\ pc = "exited" =>
    /\ exit_code = 0 <=> Cardinality(TrueResults) = Len(jobs)
    /\ Crashed # {} =>
         /\ Len(job_results) = Len(jobs) - Cardinality(Crashed)
         /\ exit_code = 1

\* a run of two jobs exited 1 with one JobResult, a success, because the
\* existence check of the other job raised
C26_Witness ==
  /\ ReportCalled
  /\ pc = "exited"
  /\ exit_code = 1
  /\ Len(jobs) = 2
  /\ Len(job_results) = 1
  /\ job_results[1].success
  /\ Cardinality(Crashed) = 1

(***************************************************************************)
(* C27: the answers of the existence check                                 *)
(***************************************************************************)
\* C27: check_s3_file_exists answers true only when the head request
\* succeeds: a job is skipped exactly when its head request found the
\* object.  After a ClientError, the code 404 or another, the job is not
\* skipped and gets no failed result from the check: it goes on to
\* generation, and when generation, encoding and upload succeed it is
\* uploaded, also over an object that was in storage.
C27_ClientErrorMeansGenerate ==
  /\ PastCheck => head \in {"404", "client_error"}
  /\ \A i \in Ended :
       /\ outcome[i].how = "skipped" <=> outcome[i].found
       /\ outcome[i].found => outcome[i].present
       /\ ~outcome[i].found /\ i \notin Crashed =>
            /\ outcome[i].how \in FailedInJob \cup {"done"}
            /\ outcome[i].chunks # <<>> \/ outcome[i].how = "generation_raised"
            /\ outcome[i].how = "done" =>
                 /\ outcome[i].key \in storage
                 /\ <<runNo, i, outcome[i].key, jobs[i]>> \in uploads

\* a job whose key was in storage and whose head request failed with a
\* ClientError was generated and uploaded over the object
C27_Witness ==
  \E i \in Ended :
    /\ outcome[i].present
    /\ ~outcome[i].found
    /\ outcome[i].how = "done"
    /\ <<runNo, i, outcome[i].key, jobs[i]>> \in uploads

(***************************************************************************)
(* C28: skipped jobs in the cost report                                    *)
(***************************************************************************)
\* the jobs of the run that were skipped
SkippedJobs == {i \in Ended : outcome[i].how = "skipped"}

\* the line of the report that holds the result of returned job i, when
\* that result is a success
RowOf(i) == Cardinality({k \in SuccessIndexes : k <= ResultIndex(i)}) + 1

\* the time and the cost of the jobs from i on that were uploaded
RECURSIVE UploadedTime(_)
UploadedTime(i) ==
  IF i > Len(outcome) THEN 0
  ELSE (IF outcome[i].how = "done" THEN ResultOf(i).generation_time_s ELSE 0)
         + UploadedTime(i + 1)

RECURSIVE UploadedCost(_)
UploadedCost(i) ==
  IF i > Len(outcome) THEN 0
  ELSE (IF outcome[i].how = "done" THEN ResultOf(i).estimated_cost_usd ELSE 0)
         + UploadedCost(i + 1)

\* C28: a skipped job is recorded with success = true; in the cost report
\* it has a data row, with the time 0.00 and the cost 0.0000, and it is
\* counted in the file count of the TOTAL row, whose time and cost are
\* the sums over the uploaded jobs alone.
C28_SkippedJobInReport ==
  ReportBuilt /\ SkippedJobs # {} =>
    LET lines == CsvLines
    IN  /\ \A i \in SkippedJobs :
             /\ ResultOf(i).success
             /\ RowOf(i) \in DataRowIndexes
             /\ StartsWith(lines[RowOf(i)],
                           <<"\"">> \o outcome[i].key \o <<"\"", ",">>)
             /\ EndsWith(lines[RowOf(i)],
                         <<",">> \o Decimal(jobs[i][2])
                           \o <<",", "0", ".", "0", "0",
                                ",", "0", ".", "0", "0", "0", "0">>)
        /\ Cardinality(SuccessIndexes) >= Cardinality(SkippedJobs)
        /\ lines[Len(lines)] =
             <<"TOTAL,">> \o Decimal(Cardinality(SuccessIndexes))
               \o <<" files,,">> \o FormatTime(UploadedTime(1))
               \o <<",">> \o FormatCost(UploadedCost(1))

\* the report of a run that uploaded one job in 5 ticks and skipped the
\* other counts two files with the time and the cost of the first
C28_Witness ==
  /\ ReportBuilt
  /\ Len(jobs) = 2
  /\ outcome[1].how = "done" /\ outcome[1].elapsed = 5
  /\ outcome[2].how = "skipped"
  /\ CsvLines[Len(CsvLines)] =
       <<"TOTAL,", "2", " files,,", "5", ".", "0", "0", ",">>
         \o FormatCost(5 * hourly_cost_usd)

(***************************************************************************)
(* C29: no object of a job that raised                                     *)
(***************************************************************************)
\* the ends of a job whose generation or encoding raised
RaisedBeforeUpload == {"generation_raised", "temp_file_raised", "write_raised"}

\* the keys the worker stores that are no job's destination key
OtherKeys == {ReportKey, ReportLatestKey, test_key}

\* a step stores an object under a job's key only as the upload step of
\* the job with that key, with the whole duration generated and the audio
\* written to the job's temporary file
WritesOnlyInUpload ==
  \A key \in (storage' \ storage) \ OtherKeys :
    /\ pc = "upload_to_s3"
    /\ key = s3_filename
    /\ SumSeq(chunks) = CurrentJob[2]
    /\ Len(chunks) = CeilDiv(CurrentJob[2], max_length_seconds)
    /\ temp_filepath \in tempFiles

\* the step in which generation or encoding raises stores nothing
RaiseStoresNothing ==
  /\ pc \in {"generate_audio", "create_temp_file", "write_audio"}
  /\ pc' = "next_job"
  => storage' = storage /\ uploads' = uploads

\* a key found in storage by a job was uploaded by an earlier job with
\* that key, of this run or of an earlier one
PresentOnlyIfUploaded ==
  \A i \in Ended :
    outcome[i].present =>
      \E u \in uploads :
        /\ u[3] = outcome[i].key
        /\ u[1] < runNo \/ (u[1] = runNo /\ u[2] < i)

\* a job whose key is not in storage is not skipped and, unless its
\* existence check raised, calls the generation adapter
AbsentIsGenerated ==
  \A i \in Ended :
    ~outcome[i].present =>
      /\ outcome[i].how # "skipped"
      /\ i \notin Crashed =>
           outcome[i].chunks # <<>> \/ outcome[i].how = "generation_raised"

\* C29 as stated: after the generation or the encoding of a job raised,
\* there is no object under the job's key, so that a later processing of
\* the job finds nothing and generates it again.
C29_NoObjectAfterRaise ==
  \A i \in Ended :
    outcome[i].how \in RaisedBeforeUpload => outcome[i].key \notin storage

\* C29, amended: an object is stored under a job's key only in the upload
\* step of a job with that key, after the whole duration was generated
\* and encoded; a job whose generation or encoding raises stores nothing,
\* so its key holds an object only if an upload under that key succeeded,
\* and a later processing of the job whose key holds none is not skipped
\* and generates again, unless its existence check raises.
C29_RaiseStoresNothing ==
  /\ [][WritesOnlyInUpload /\ RaiseStoresNothing]_vars
  /\ [](PresentOnlyIfUploaded /\ AbsentIsGenerated)

\* the write of the job raised in the first run, which left its temporary
\* file and no object; the second run found no object, generated the job
\* again and uploaded it
C29_Witness ==
  /\ runNo = 2
  /\ <<1, 1>> \in tempFiles
  /\ \A u \in uploads : u[1] = 2
  /\ 1 \in Ended
  /\ ~outcome[1].present
  /\ outcome[1].how = "done"
  /\ outcome[1].key \in storage

(***************************************************************************)
(* C30: the steps of deploy_and_monitor.py and where the script stops      *)
(***************************************************************************)
\* the names of the steps run so far
StepNames == [k \in 1..Len(steps) |-> steps[k][1]]

\* the steps run so far are the first ones of deploy, start worker, monitor,
\* summary, each run once
StepsInOrder ==
  /\ Len(steps) <= Len(StepOrder)
  /\ StepNames = SubSeq(StepOrder, 1, Len(steps))

\* step k went wrong: the deployment answered False, the start gave no PID,
\* the monitoring or the summary met an error
StepFailed(k) ==
  LET name == steps[k][1]
      answer == steps[k][2]
  IN CASE name = "deploy" ->
            answer \in {"missing", "returncode_nonzero", "timeout", "raised"}
       [] name = "start_worker" ->
            answer \in {"prompts_missing", "start_failed", "start_raised",
                        "pid_raised", "pid_empty"}
       [] name = "monitor" -> answer \in {"ssh_failed", "raised"}
       [] OTHER -> answer = "raised"

\* step k is the last one and the script has exited with code 1
StoppedAt(k) ==
  /\ k = Len(steps)
  /\ script_pc = "exited"
  /\ script_exit = 1

\* the deployment step ran and did not succeed
DeploymentNotDone == Len(steps) >= 1 /\ steps[1][2] # "returncode_0"

\* start_worker returned and what it returned is no PID
ReturnedNoPid ==
  /\ Len(steps) >= 2
  /\ steps[2][2] # "interrupted"
  /\ worker_pid \in {NoneValue, ""}

\* the remote worker is never started after a deployment that failed or
\* timed out; monitoring and summary never run after a start without PID
NothingAfterFailure ==
  /\ DeploymentNotDone => ~remote_started /\ Len(steps) = 1
  /\ ReturnedNoPid => Len(steps) = 2 /\ StoppedAt(2)
  /\ Len(steps) >= 3 => worker_pid \notin {NoneValue, ""}

\* C30 as stated: the steps run in the order deploy, start worker, monitor,
\* summary, and the script stops with exit code 1 at the first step that
\* failed, whichever step it is; the remote worker is never started after a
\* failed deployment, monitoring and summary never run without a PID.
C30_StopsAtFirstFailedStep ==
  /\ StepsInOrder
  /\ \A k \in 1..Len(steps) : StepFailed(k) => StoppedAt(k)
  /\ NothingAfterFailure

\* C30: the steps run in the order deploy, start worker, monitor, summary.
\* The script stops with exit code 1 when the deployment fails or times out
\* (the remote worker is never started) and when the start of the worker
\* returns no PID, prompts.txt missing included (monitoring and summary
\* never run).  An error while monitoring does not stop the script: the
\* summary still runs, and after the monitoring has begun the exit code is 0.
C30_StopsWhenDeployOrStartFails ==
  /\ StepsInOrder
  /\ \A k \in 1..Len(steps) :
       StepFailed(k) /\ steps[k][1] \in {"deploy", "start_worker"} => StoppedAt(k)
  /\ NothingAfterFailure
  /\ Len(steps) >= 3 /\ script_pc = "exited" => script_exit = 0
  /\ Len(steps) = 3 /\ script_pc = "exited" => steps[3][2] = "interrupted"

\* the deployment succeeded, prompts.txt is missing: the script has exited
\* with code 1 and nothing was started on the pod
C30_Witness ==
  /\ script_pc = "exited"
  /\ script_exit = 1
  /\ steps = <<<<"deploy", "returncode_0">>, <<"start_worker", "prompts_missing">>>>
  /\ ~remote_started

====
